---- MODULE Spec2Model ----
(***************************************************************************)
(* Governance layer of the convex-mvp-builder agent harness:               *)
(*   - the path and command policy of GUARDRAILS.md (SpecWrites, SpecShell)*)
(*   - the feature checklist as the coding prompt drives it (SpecSession)  *)
(*   - scripts/preflight.sh (SpecPreflight)                                *)
(*   - the setup verification script (SpecVerify)                          *)
(* Each component has its own specification over the shared variables; the *)
(* variables of the other components stay at their idle values.            *)
(***************************************************************************)
EXTENDS Integers, Sequences, FiniteSets, TLC

VARIABLES
    files,          \* working tree: path -> [exists, entries]
    shellLog,       \* the last shell command that was executed (<<>>: none)
    lastOp,         \* the last filesystem operation the agent asked for
    lastDecision,   \* the Decision of the last authorize call
    feature_list,   \* feature_list.json: sequence of FeatureRecords
    progress,       \* claude-progress.txt: number of note blocks
    commits,        \* git history: the snapshot [list, notes] of each commit
    session,        \* [n, step, selected, verified, issues] of the running session
    pf,             \* preflight.sh: environment, counters, position, exit code
    vs,             \* verify-setup: environment, checks, hasErrors, position, exit code
    ledger,         \* Progress Ledger: backing store, temp file, loaded copy, last result
    cli,            \* harness entry point: session cap, sessions run, exit code
    db,             \* Convex deployment: tasks table, id counter, clock, last call
    ui,             \* auth components: isLoading, request in flight, last toast
    sh              \* init.sh: environment, position, output lines, exit code

vars == <<files, shellLog, lastOp, lastDecision, feature_list, progress, commits, session, pf, vs,
          ledger, cli, db, ui, sh>>

NoDecision == [allow |-> TRUE, rule |-> "none", subject |-> <<>>]

(***************************************************************************)
(* PATHS.  A path is [dirs, stem, ext]: convex/auth.config.ts is           *)
(* [dirs |-> <<"convex">>, stem |-> "auth.config", ext |-> "ts"].          *)
(* A pattern has the same shape; "*" matches any one stem, extension or    *)
(* directory, "**" one or more directories, and under = TRUE makes the     *)
(* pattern a directory prefix (everything under convex/_generated).       *)
(***************************************************************************)
P(dirs, stem, ext) == [dirs |-> dirs, stem |-> stem, ext |-> ext]

Pat(dirs, stem, ext, under) == [dirs |-> dirs, stem |-> stem, ext |-> ext, under |-> under]

\* the protected list as the initializer prompt gives it: without app/layout.tsx
PROTECTED_FILES_without_layout ==
    { Pat(<<"convex">>, "auth", "ts", FALSE),
      Pat(<<"convex">>, "auth.config", "ts", FALSE),
      Pat(<<"convex", "_generated">>, "*", "*", TRUE),
      Pat(<<"app">>, "ConvexClientProvider", "tsx", FALSE) }

\* GUARDRAILS.md "NEVER MODIFY (Protected Files)"
PROTECTED_FILES ==
    { Pat(<<"convex">>, "auth", "ts", FALSE),
      Pat(<<"convex">>, "auth.config", "ts", FALSE),
      Pat(<<"convex", "_generated">>, "*", "*", TRUE),
      Pat(<<"app">>, "ConvexClientProvider", "tsx", FALSE),
      Pat(<<"app">>, "layout", "tsx", FALSE) }

\* an extend-only list that forgets convex/http.ts
EXTEND_ONLY_FILES_without_http == { Pat(<<"convex">>, "schema", "ts", FALSE) }

\* GUARDRAILS.md "EXTEND ONLY (Follow Existing Patterns)"
EXTEND_ONLY_FILES ==
    { Pat(<<"convex">>, "schema", "ts", FALSE),
      Pat(<<"convex">>, "http", "ts", FALSE) }

\* GUARDRAILS.md "SAFE TO CREATE (New Files)"; the documented exceptions
\* (auth.ts, auth.config.ts, root layout.tsx) are the protected entries above.
SAFE_TO_CREATE ==
    { Pat(<<"convex">>, "*", "ts", FALSE),
      Pat(<<"components">>, "*", "tsx", FALSE),
      Pat(<<"components", "**">>, "*", "tsx", FALSE),
      Pat(<<"app", "**">>, "page", "tsx", FALSE),
      Pat(<<"app", "**">>, "layout", "tsx", FALSE),
      Pat(<<"lib">>, "*", "ts", FALSE) }

RECURSIVE DirsMatch(_, _)
\* do the pattern directories pd match exactly the directories d
DirsMatch(pd, d) ==
    IF pd = <<>> THEN d = <<>>
    ELSE IF d = <<>> THEN FALSE
    ELSE IF Head(pd) = "**"
         THEN DirsMatch(Tail(pd), Tail(d)) \/ DirsMatch(pd, Tail(d))
         ELSE (Head(pd) = "*" \/ Head(pd) = Head(d)) /\ DirsMatch(Tail(pd), Tail(d))

IsPrefix(s, t) == Len(s) <= Len(t) /\ SubSeq(t, 1, Len(s)) = s

Matches(pat, path) ==
    IF pat.under
    THEN IsPrefix(pat.dirs, path.dirs)
    ELSE /\ DirsMatch(pat.dirs, path.dirs)
         /\ (pat.stem = "*" \/ pat.stem = path.stem)
         /\ (pat.ext = "*" \/ pat.ext = path.ext)

\* the length of a pattern, in path segments
PatLen(pat) == Len(pat.dirs) + 1

PolicyEntries ==
    [pattern : PROTECTED_FILES, class : {"protected"}]
      \cup [pattern : EXTEND_ONLY_FILES, class : {"extend-only"}]
      \cup [pattern : SAFE_TO_CREATE, class : {"free"}]

Rank_permissive(class) == CASE class = "protected" -> 0 [] class = "extend-only" -> 1 [] OTHER -> 2

\* protected > extend-only > free
Rank(class) == CASE class = "protected" -> 2 [] class = "extend-only" -> 1 [] OTHER -> 0

\* Path Classifier: the longest matching pattern wins, ties go to the more
\* restrictive class, a path no pattern matches is free.
classify(path) ==
    LET hits == {e \in PolicyEntries : Matches(e.pattern, path)}
        longest == {e \in hits : \A f \in hits : PatLen(f.pattern) <= PatLen(e.pattern)}
    IN  IF hits = {} THEN "free"
        ELSE (CHOOSE e \in longest : \A f \in longest : Rank(f.class) <= Rank(e.class)).class

(***************************************************************************)
(* WRITES.  The content of a file is the set of its named top-level        *)
(* entries (tables of schema.ts, route registrations of http.ts).          *)
(***************************************************************************)
File(entries) == [entries |-> entries, exists |-> TRUE]

NoFile == [entries |-> {}, exists |-> FALSE]

AuthTs == P(<<"convex">>, "auth", "ts")
AuthConfigTs == P(<<"convex">>, "auth.config", "ts")
GeneratedApi == P(<<"convex", "_generated">>, "api", "d.ts")
GeneratedNew == P(<<"convex", "_generated", "cache">>, "server", "js")
ProviderTsx == P(<<"app">>, "ConvexClientProvider", "tsx")
RootLayout == P(<<"app">>, "layout", "tsx")
SchemaTs == P(<<"convex">>, "schema", "ts")
HttpTs == P(<<"convex">>, "http", "ts")
ProductsTs == P(<<"convex">>, "products", "ts")
NestedLayout == P(<<"app", "dashboard">>, "layout", "tsx")

Paths ==
    { AuthTs, AuthConfigTs, GeneratedApi, GeneratedNew, ProviderTsx, RootLayout,
      SchemaTs, HttpTs, ProductsTs, NestedLayout }

\* the working tree of the template
InitFiles ==
    [p \in Paths |->
        CASE p = SchemaTs -> File({"authTables", "tasks"})
          [] p = HttpTs -> File({"auth.addHttpRoutes"})
          [] p \in {AuthTs, AuthConfigTs, GeneratedApi, ProviderTsx, RootLayout} -> File({"core"})
          [] OTHER -> NoFile]

\* what a write request may carry
ProposedContents ==
    { {}, {"authTables"}, {"authTables", "tasks"}, {"authTables", "tasks", "products"},
      {"auth.addHttpRoutes"}, {"auth.addHttpRoutes", "webhook"} }

WriteOp(path, content) == [path |-> path, content |-> content, kind |-> "write"]

DeleteOp(path) == [path |-> path, content |-> {}, kind |-> "delete"]

NoOp == [path |-> P(<<>>, "", ""), content |-> {}, kind |-> "none"]

\* the class of each path of the working tree
PathClass == [p \in Paths |-> classify(p)]

Deny(rule, subject) == [allow |-> FALSE, rule |-> rule, subject |-> subject]

Allow(rule, subject) == [allow |-> TRUE, rule |-> rule, subject |-> subject]

\* extend-only: every named entry of the content before is in the proposed content
IsStructuralSuperset(before, op) ==
    op.kind = "write" /\ before.entries \subseteq op.content

\* Policy Engine, filesystem side: stateless, "before" is the existing content
authorizeWrite(op, before) ==
    LET class == PathClass[op.path]
    IN  CASE class = "protected" -> Deny("protected", op.path)
          [] class = "extend-only" ->
                IF IsStructuralSuperset(before, op)
                THEN Allow("extend-only", op.path)
                ELSE Deny("extend-only", op.path)
          [] OTHER -> Allow("free", op.path)

Apply(op, fs) ==
    IF op.kind = "delete"
    THEN [fs EXCEPT ![op.path] = NoFile]
    ELSE [fs EXCEPT ![op.path] = File(op.content)]

Request_applies_denied(op) ==
    LET d == authorizeWrite(op, files[op.path])
    IN  /\ lastOp' = op
        /\ lastDecision' = d
        /\ files' = Apply(op, files)
        /\ UNCHANGED <<shellLog, feature_list, progress, commits, session, pf, vs, ledger, cli, db, ui, sh>>

\* one filesystem request of the agent, gated by the Policy Engine
Request(op) ==
    LET d == authorizeWrite(op, files[op.path])
    IN  /\ lastOp' = op
        /\ lastDecision' = d
        /\ files' = IF d.allow THEN Apply(op, files) ELSE files
        /\ UNCHANGED <<shellLog, feature_list, progress, commits, session, pf, vs, ledger, cli, db, ui, sh>>

RequestWrite == \E p \in Paths, c \in ProposedContents : Request(WriteOp(p, c))

RequestDelete == \E p \in Paths : Request(DeleteOp(p))

(***************************************************************************)
(* SHELL COMMANDS.  A command is the sequence of its words.                *)
(***************************************************************************)
\* an allow list that lets rm through with the other file operations
ALLOWED_COMMANDS_with_rm ==
    { "ls", "cat", "head", "tail", "wc", "grep", "find", "cp", "mkdir", "touch", "rm",
      "pwd", "cd", "npm", "node", "npx", "python", "python3", "pip", "pip3", "uv",
      "git", "make", "cargo", "go", "curl", "jq", "echo", "printf", "tee", "sort",
      "uniq", "tr", "cut", "sed", "awk", "xargs", "date", "env", "which",
      "basename", "dirname", "realpath", "test", "[", "true", "false", "ps",
      "lsof", "sleep", "timeout" }

\* GUARDRAILS.md "Always Allowed"
ALLOWED_COMMANDS ==
    { "ls", "cat", "head", "tail", "wc", "grep", "find", "cp", "mkdir", "touch",
      "pwd", "cd", "npm", "node", "npx", "python", "python3", "pip", "pip3", "uv",
      "git", "make", "cargo", "go", "curl", "jq", "echo", "printf", "tee", "sort",
      "uniq", "tr", "cut", "sed", "awk", "xargs", "date", "env", "which",
      "basename", "dirname", "realpath", "test", "[", "true", "false", "ps",
      "lsof", "sleep", "timeout" }

\* GUARDRAILS.md "Restricted (Extra Validation)"
COMMANDS_NEEDING_EXTRA_VALIDATION == {"pkill", "chmod", "init.sh"}

\* a process list that also names a system daemon
ALLOWED_PROCESS_NAMES_with_sshd ==
    {"node", "npm", "npx", "vite", "next", "python", "python3", "uvicorn", "gunicorn", "sshd"}

\* GUARDRAILS.md: pkill, "Only dev processes allowed"
ALLOWED_PROCESS_NAMES ==
    {"node", "npm", "npx", "vite", "next", "python", "python3", "uvicorn", "gunicorn"}

\* invocation forms that also accept an argument after the script
INIT_SCRIPT_FORMS_with_argument ==
    { <<"./init.sh">>, <<"bash", "init.sh">>, <<"sh", "init.sh">>, <<"./init.sh", "--force">> }

\* GUARDRAILS.md: init.sh, "Only ./init.sh, bash init.sh, or sh init.sh"
INIT_SCRIPT_FORMS == { <<"./init.sh">>, <<"bash", "init.sh">>, <<"sh", "init.sh">> }

\* permission bits that also allow making a file writable
CHMOD_ALLOWED_PERMS_with_w == {"x", "w"}

\* GUARDRAILS.md: chmod, "Only +x mode allowed": the permission bits a mode may add
CHMOD_ALLOWED_PERMS == {"x"}

IsFlag(word) == word \in {"-f", "-9", "-R", "-c", "--force"}

\* the file a path word names
BaseName(word) ==
    CASE word \in {"./init.sh", "/tmp/init.sh", "scripts/init.sh"} -> "init.sh"
      [] OTHER -> word

\* the script a command runs: the word after a shell interpreter, else the first word
ScriptWord(cmd) ==
    IF cmd[1] \in {"bash", "sh", "zsh", "source"} /\ Len(cmd) >= 2 THEN cmd[2] ELSE cmd[1]

\* the program the policy tables are keyed on
Program(cmd) ==
    IF BaseName(ScriptWord(cmd)) = "init.sh" THEN "init.sh" ELSE cmd[1]

\* a chmod mode word: symbolic [who][op][perms], or numeric
ParseMode(word) ==
    CASE word = "+x" -> [op |-> "+", symbolic |-> TRUE, perms |-> {"x"}]
      [] word = "u+x" -> [op |-> "+", symbolic |-> TRUE, perms |-> {"x"}]
      [] word = "a+x" -> [op |-> "+", symbolic |-> TRUE, perms |-> {"x"}]
      [] word = "-x" -> [op |-> "-", symbolic |-> TRUE, perms |-> {"x"}]
      [] word = "+w" -> [op |-> "+", symbolic |-> TRUE, perms |-> {"w"}]
      [] word = "o+w" -> [op |-> "+", symbolic |-> TRUE, perms |-> {"w"}]
      [] word = "a+rwx" -> [op |-> "+", symbolic |-> TRUE, perms |-> {"r", "w", "x"}]
      [] word = "+wx" -> [op |-> "+", symbolic |-> TRUE, perms |-> {"w", "x"}]
      [] word = "=x" -> [op |-> "=", symbolic |-> TRUE, perms |-> {"x"}]
      [] OTHER -> [op |-> "=", symbolic |-> FALSE, perms |-> {}]

Range(seq) == {seq[i] : i \in 1..Len(seq)}

\* the process names a pkill command targets: its words that are not flags
PkillTargets(cmd) == {w \in Range(Tail(cmd)) : ~IsFlag(w)}

validate_pkill_command(cmd) == \A t \in PkillTargets(cmd) : t \in ALLOWED_PROCESS_NAMES

validate_chmod_command(cmd) ==
    /\ Len(cmd) >= 3
    /\ LET m == ParseMode(cmd[2])
       IN  m.symbolic /\ m.op = "+" /\ m.perms # {} /\ m.perms \subseteq CHMOD_ALLOWED_PERMS

validate_init_script(cmd) == cmd \in INIT_SCRIPT_FORMS

\* Command Classifier: an unknown program is blocked
classifyCommand(cmd) ==
    LET prog == Program(cmd)
    IN  IF prog \in COMMANDS_NEEDING_EXTRA_VALIDATION THEN "restrict"
        ELSE IF prog \in ALLOWED_COMMANDS THEN "allow"
        ELSE "block"

\* Policy Engine, shell side
authorizeCommand(cmd) ==
    LET class == classifyCommand(cmd)
        prog == Program(cmd)
    IN  CASE class = "allow" -> Allow("allow", cmd)
          [] class = "block" -> Deny("block", cmd)
          [] OTHER ->
                IF \/ prog = "pkill" /\ validate_pkill_command(cmd)
                   \/ prog = "chmod" /\ validate_chmod_command(cmd)
                   \/ prog = "init.sh" /\ validate_init_script(cmd)
                THEN Allow(prog, cmd)
                ELSE Deny(prog, cmd)

\* the bound on the words after pkill
MaxPkillWords == 2

PkillWords == {"node", "vite", "sshd", "-f"}

RECURSIVE SeqsUpTo(_, _)
SeqsUpTo(S, n) ==
    IF n = 0 THEN { <<>> }
    ELSE LET shorter == SeqsUpTo(S, n - 1)
         IN  shorter \cup {Append(q, x) : q \in {r \in shorter : Len(r) = n - 1}, x \in S}

\* the commands the agent may ask for
Commands ==
    { <<prog>> : prog \in {"ls", "git", "npm", "curl", "python3", "find"} }
      \cup { <<prog>> : prog \in {"rm", "rmdir", "sudo", "su", "wget", "ssh", "scp", "dd",
                                  "mkfs", "mv", "frobnicate", "bash", "init.sh"} }
      \cup { <<"git", "status">>, <<"rm", "-R", "app">>, <<"sudo", "ls">>, <<"bash", "deploy.sh">>,
             <<"sh", "-c", "init.sh">>, <<"bash", "init.sh", "--force">>, <<"./init.sh", "--force">>,
             <<"source", "init.sh">>, <<"zsh", "init.sh">>, <<"/tmp/init.sh">>,
             <<"bash", "scripts/init.sh">>, <<"bash", "./init.sh">> }
      \cup INIT_SCRIPT_FORMS
      \cup { <<"pkill">> \o q : q \in SeqsUpTo(PkillWords, MaxPkillWords) }
      \cup { <<"chmod", m, "init.sh">> :
                m \in {"+x", "u+x", "a+x", "-x", "+w", "o+w", "a+rwx", "+wx", "=x", "777", "755"} }
      \cup { <<"chmod", "+x">>, <<"chmod", "-R", "+x", "app">> }

\* one shell request of the agent, gated by the Policy Engine
RequestCommand ==
    \E cmd \in Commands :
        LET d == authorizeCommand(cmd)
        IN  /\ lastDecision' = d
            /\ shellLog' = IF d.allow THEN cmd ELSE shellLog
            /\ UNCHANGED <<files, lastOp, feature_list, progress, commits, session, pf, vs,
                           ledger, cli, db, ui, sh>>

(***************************************************************************)
(* SESSIONS.  One session is one run of an agent that follows the          *)
(* initializer prompt (no feature_list.json yet) or the coding prompt.     *)
(***************************************************************************)
\* {{FEATURE_COUNT}} of the initializer prompt
FEATURE_COUNT == 2

\* the bound on the number of sessions (--max-iterations)
MaxSessions == 3

\* a test case that is born passing
Feature_passing(i) ==
    [ category |-> IF i % 2 = 1 THEN "functional" ELSE "style",
      description |-> i,
      steps |-> <<i, i + 1>>,
      passes |-> TRUE ]

\* the i-th test case of the application specification
Feature(i) ==
    [ category |-> IF i % 2 = 1 THEN "functional" ELSE "style",
      description |-> i,
      steps |-> <<i, i + 1>>,
      passes |-> FALSE ]

Idle == [n |-> 0, step |-> "none", selected |-> 0, verified |-> FALSE, checked |-> {}, issues |-> {}]

Passing(fl) == {i \in 1..Len(fl) : fl[i].passes}

Failing(fl) == {i \in 1..Len(fl) : ~fl[i].passes}

Max(S) == CHOOSE x \in S : \A y \in S : x >= y

Min(S) == CHOOSE x \in S : \A y \in S : x <= y

\* git add . ; git commit: the snapshot of feature_list.json and claude-progress.txt
GitCommit(history, list, notes) == Append(history, [list |-> list, notes |-> notes])

\* the working tree differs from the last commit
Dirty(history, list, notes) ==
    [list |-> list, notes |-> notes] #
        (IF history = <<>> THEN [list |-> <<>>, notes |-> 0] ELSE history[Len(history)])

SessionFrame == UNCHANGED <<files, shellLog, lastOp, lastDecision, pf, vs, ledger, cli, db, ui, sh>>

\* the harness starts the next session: the initializer when there is no
\* feature_list.json, a coding agent otherwise; it goes on until all features pass
StartSession ==
    /\ session.step = "none"
    /\ session.n < MaxSessions
    /\ feature_list = <<>> \/ Failing(feature_list) # {}
    /\ session' = [Idle EXCEPT !.n = session.n + 1,
                               !.step = IF feature_list = <<>> THEN "create_list" ELSE "bearings"]
    /\ UNCHANGED <<feature_list, progress, commits>>
    /\ SessionFrame

\* initializer, CRITICAL FIRST TASK: create feature_list.json, all tests failing
CreateFeatureList ==
    /\ session.step = "create_list"
    /\ feature_list' = [i \in 1..FEATURE_COUNT |-> Feature(i)]
    /\ session' = [session EXCEPT !.step = "init_commit"]
    /\ UNCHANGED <<progress, commits>>
    /\ SessionFrame

\* initializer, SIXTH TASK: commit; then optionally start implementing
InitialCommit ==
    /\ session.step = "init_commit"
    /\ commits' = GitCommit(commits, feature_list, progress)
    /\ \E next \in {"choose", "notes"} : session' = [session EXCEPT !.step = next]
    /\ UNCHANGED <<feature_list, progress>>
    /\ SessionFrame

\* a coding agent that goes from its bearings straight to the implementation
GetBearings_then_implement ==
    /\ session.step = "bearings"
    /\ session' = [session EXCEPT !.step = "implement"]
    /\ UNCHANGED <<feature_list, progress, commits>>
    /\ SessionFrame

\* coding prompt, STEP 1 and STEP 2: read the files, start the servers
GetBearings ==
    /\ session.step = "bearings"
    /\ session' = [session EXCEPT !.step = "verify"]
    /\ UNCHANGED <<feature_list, progress, commits>>
    /\ SessionFrame

\* STEP 3: run one of the tests marked passing; on any issue the feature is
\* marked "passes": false immediately and put on the list of issues
VerificationTest ==
    /\ session.step = "verify"
    /\ Cardinality(session.checked) < 2
    /\ \E i \in Passing(feature_list) \ session.checked, ok \in BOOLEAN :
          /\ feature_list' = IF ok THEN feature_list
                                    ELSE [feature_list EXCEPT ![i].passes = FALSE]
          /\ session' = [session EXCEPT !.checked = @ \cup {i},
                                         !.issues = IF ok THEN @ ELSE @ \cup {i}]
    /\ UNCHANGED <<progress, commits>>
    /\ SessionFrame

\* STEP 3: fix all issues before moving to new features
FixIssue ==
    /\ session.step = "verify"
    /\ \E i \in session.issues : session' = [session EXCEPT !.issues = @ \ {i}]
    /\ UNCHANGED <<feature_list, progress, commits>>
    /\ SessionFrame

\* STEP 4: the highest-priority feature with "passes": false
ChooseFeature ==
    /\ \/ session.step = "choose"
       \/ /\ session.step = "verify"
          /\ session.checked # {} \/ Passing(feature_list) = {}
    /\ session.issues = {}
    /\ session' = IF Failing(feature_list) = {}
                  THEN [session EXCEPT !.step = "notes"]
                  ELSE [session EXCEPT !.step = "implement",
                                       !.selected = Min(Failing(feature_list))]
    /\ UNCHANGED <<feature_list, progress, commits>>
    /\ SessionFrame

\* STEP 5: implement the chosen feature
ImplementFeature ==
    /\ session.step = "implement"
    /\ session' = [session EXCEPT !.step = "test", !.verified = FALSE]
    /\ UNCHANGED <<feature_list, progress, commits>>
    /\ SessionFrame

\* STEP 6: browser automation reports whether the feature works
VerifyWithBrowser ==
    /\ session.step = "test"
    /\ \E ok \in BOOLEAN :
          session' = [session EXCEPT !.verified = ok,
                                     !.step = IF ok THEN "update" ELSE "implement"]
    /\ UNCHANGED <<feature_list, progress, commits>>
    /\ SessionFrame

UpdateFeatureList_unverified ==
    /\ session.step = "update"
    /\ feature_list' = [i \in 1..Len(feature_list) |-> [feature_list[i] EXCEPT !.passes = TRUE]]
    /\ session' = [session EXCEPT !.step = "commit"]
    /\ UNCHANGED <<progress, commits>>
    /\ SessionFrame

\* STEP 7: after verification, change "passes": false to "passes": true
UpdateFeatureList ==
    /\ session.step = "update"
    /\ session.verified
    /\ feature_list' = [feature_list EXCEPT ![session.selected].passes = TRUE]
    /\ session' = [session EXCEPT !.step = "commit"]
    /\ UNCHANGED <<progress, commits>>
    /\ SessionFrame

\* STEP 8: git add . and git commit
CommitProgress ==
    /\ session.step = "commit"
    /\ commits' = GitCommit(commits, feature_list, progress)
    /\ session' = [session EXCEPT !.step = "notes"]
    /\ UNCHANGED <<feature_list, progress>>
    /\ SessionFrame

\* STEP 9: update claude-progress.txt
UpdateProgressNotes ==
    /\ session.step = "notes"
    /\ progress' = progress + 1
    /\ session' = [session EXCEPT !.step = "end"]
    /\ UNCHANGED <<feature_list, commits>>
    /\ SessionFrame

\* STEP 10: ensure no uncommitted changes; the session ends and nothing of it
\* but the files is kept
EndSession ==
    /\ session.step = "end"
    /\ session' = [Idle EXCEPT !.n = session.n]
    /\ commits' = IF Dirty(commits, feature_list, progress)
                  THEN GitCommit(commits, feature_list, progress)
                  ELSE commits
    /\ UNCHANGED <<feature_list, progress>>
    /\ SessionFrame

\* Ctrl+C, a timeout or a crash ends the running session where it stands
Interrupt ==
    /\ session.step # "none"
    /\ session' = [Idle EXCEPT !.n = session.n]
    /\ UNCHANGED <<feature_list, progress, commits>>
    /\ SessionFrame

(***************************************************************************)
(* scripts/preflight.sh.  The script runs under set -e: a plain assignment *)
(* VAR=$(command) whose command fails ends the script with the command's   *)
(* exit status.  Each check reads its part of the environment.             *)
(***************************************************************************)
\* the installed python3 is 3.0 .. 3.MaxPyMinor, or absent
MaxPyMinor == 12

PythonEnv == {<<>>} \cup {<<3, m>> : m \in 0..MaxPyMinor}

NodeEnv == {0, 18, 20, 22}

Digits(n) == IF n < 10 THEN <<n>> ELSE <<n \div 10, n % 10>>

\* print(f"{sys.version_info.major}.{sys.version_info.minor}"): the text "major.minor"
FormatVersion(v) == [int |-> v[1], frac |-> Digits(v[2])]

\* f-strings exist from Python 3.6 on; before, python3 -c is a SyntaxError, exit 1
HasFStrings(v) == v[1] > 3 \/ (v[1] = 3 /\ v[2] >= 6)

\* the value bc gives a decimal text, in hundredths
BcValue(text) ==
    text.int * 100 + text.frac[1] * 10 + (IF Len(text.frac) >= 2 THEN text.frac[2] ELSE 0)

\* echo "$PYTHON_VERSION < 3.10" | bc -l prints 1 or 0
BcLess(text, bound) == IF BcValue(text) < BcValue(bound) THEN 1 ELSE 0

MinPython == [int |-> 3, frac |-> <<1, 0>>]

PfInit ==
    [ pc |-> "check1", ERRORS |-> 0, WARNINGS |-> 0, exit |-> -1,
      python |-> <<>>, git |-> FALSE, counted |-> {}, unmet |-> {}, aborted |-> "" ]

PfIdle == [PfInit EXCEPT !.pc = "off"]

PfFrame ==
    UNCHANGED <<files, shellLog, lastOp, lastDecision, feature_list, progress, commits, session, vs,
                ledger, cli, db, ui, sh>>

\* set -e: the script ends at once with the failed command's status
Abort(st, at, code) == [st EXCEPT !.pc = "done", !.exit = code, !.aborted = at]

CountError(st, name) == [st EXCEPT !.ERRORS = @ + 1, !.counted = @ \cup {name}]

CountWarning(st) == [st EXCEPT !.WARNINGS = @ + 1]

\* is the requirement "Python 3.10+" not met
PythonTooOld(py) == py = <<>> \/ py[1] < 3 \/ (py[1] = 3 /\ py[2] < 10)

\* what python3 -c 'import sys; print(f"...")' 2>/dev/null prints and returns:
\* command not found is 127, a SyntaxError is 1, and both print nothing
PythonVersionCommand(py) ==
    IF py = <<>> THEN [status |-> 127, out |-> <<>>]
    ELSE IF ~HasFStrings(py) THEN [status |-> 1, out |-> <<>>]
    ELSE [status |-> 0, out |-> <<FormatVersion(py)>>]

\* [[ $(echo "$PYTHON_VERSION < 3.10" | bc -l) -eq 1 ]]; without bc the text is
\* empty, which -eq reads as 0
IsOutdated(out, bc) == (IF bc THEN BcLess(out[1], MinPython) ELSE 0) = 1

\* CHECK 1: Python 3.10+.  unmet records the branch of the if that the captured
\* text selects (NOT FOUND, OUTDATED: an error), counted what the script counted.
Check1(st, py, bc) ==
    LET run == PythonVersionCommand(py)
        st1 == [st EXCEPT !.python = py, !.pc = "check2",
                          !.unmet = IF run.out = <<>> \/ IsOutdated(run.out, bc)
                                    THEN @ \cup {"python"} ELSE @]
    IN  IF run.status # 0 THEN Abort(st1, "check1", run.status)
        ELSE IF run.out = <<>> THEN CountError(st1, "python")
        ELSE IF IsOutdated(run.out, bc) THEN CountError(st1, "python")
        ELSE st1

PfCheck1 ==
    /\ pf.pc = "check1"
    /\ \E py \in PythonEnv, bc \in BOOLEAN : pf' = Check1(pf, py, bc)
    /\ PfFrame

\* CHECK 2: Node.js 20+ (node = 0: not installed, NODE_VERSION is empty)
Check2(st, node) ==
    LET st1 == [st EXCEPT !.pc = "check3",
                          !.unmet = IF node < 20 THEN @ \cup {"node"} ELSE @]
    IN  IF node = 0 THEN CountError(st1, "node")
        ELSE IF node < 20 THEN CountError(st1, "node")
        ELSE st1

PfCheck2 ==
    /\ pf.pc = "check2"
    /\ \E node \in NodeEnv : pf' = Check2(pf, node)
    /\ PfFrame

\* CHECK 3: Git installed
Check3(st, git) ==
    LET st1 == [st EXCEPT !.pc = "check4", !.git = git,
                          !.unmet = IF git THEN @ ELSE @ \cup {"git"}]
    IN  IF ~git THEN CountError(st1, "git") ELSE st1

PfCheck3 ==
    /\ pf.pc = "check3"
    /\ \E git \in BOOLEAN : pf' = Check3(pf, git)
    /\ PfFrame

\* CHECK 4: Claude authentication: the CLI, or ANTHROPIC_API_KEY
Check4(st, claude, key) ==
    LET st1 == [st EXCEPT !.pc = "check5",
                          !.unmet = IF claude \/ key THEN @ ELSE @ \cup {"claude"}]
    IN  IF claude THEN st1 ELSE IF key THEN st1 ELSE CountError(st1, "claude")

PfCheck4 ==
    /\ pf.pc = "check4"
    /\ \E claude \in BOOLEAN, key \in BOOLEAN : pf' = Check4(pf, claude, key)
    /\ PfFrame

\* CHECK 5: claude-code-sdk installed (the import runs in an if: no set -e)
Check5(st, sdk) ==
    LET st1 == [st EXCEPT !.pc = "check6",
                          !.unmet = IF sdk THEN @ ELSE @ \cup {"sdk"}]
    IN  IF sdk THEN st1 ELSE CountError(st1, "sdk")

PfCheck5 ==
    /\ pf.pc = "check5"
    /\ \E sdk \in BOOLEAN : pf' = Check5(pf, sdk)
    /\ PfFrame

\* CHECK 6: npm dependencies installed
Check6(st, node_modules) ==
    LET st1 == [st EXCEPT !.pc = "check7"]
    IN  IF node_modules THEN st1 ELSE CountWarning(st1)

PfCheck6 ==
    /\ pf.pc = "check6"
    /\ \E node_modules \in BOOLEAN : pf' = Check6(pf, node_modules)
    /\ PfFrame

\* CHECK 7: Convex configured (.env.local names CONVEX_DEPLOYMENT)
Check7(st, configured) ==
    LET st1 == [st EXCEPT !.pc = "check8"]
    IN  IF configured THEN st1 ELSE CountWarning(st1)

PfCheck7 ==
    /\ pf.pc = "check7"
    /\ \E configured \in BOOLEAN : pf' = Check7(pf, configured)
    /\ PfFrame

\* CHECK 8: CURRENT_REMOTE=$(git remote get-url origin 2>/dev/null)
\* git exits 2 for no remote named origin, 128 outside a repository
Check8(st, remote) ==
    LET st1 == [st EXCEPT !.pc = "summary"]
    IN  IF ~st.git THEN Abort(st1, "check8", 127)
        ELSE IF remote = "norepo" THEN Abort(st1, "check8", 128)
        ELSE IF remote = "unset" THEN Abort(st1, "check8", 2)
        ELSE IF remote = "template" THEN CountWarning(st1)
        ELSE st1

PfCheck8 ==
    /\ pf.pc = "check8"
    /\ \E remote \in {"unset", "norepo", "template", "own"} : pf' = Check8(pf, remote)
    /\ PfFrame

\* SUMMARY
Summary(st) ==
    IF st.ERRORS = 0 /\ st.WARNINGS = 0 THEN [st EXCEPT !.pc = "done", !.exit = 0]
    ELSE IF st.ERRORS = 0 THEN [st EXCEPT !.pc = "done", !.exit = 0]
    ELSE [st EXCEPT !.pc = "done", !.exit = 1]

PfSummary ==
    /\ pf.pc = "summary"
    /\ pf' = Summary(pf)
    /\ PfFrame

(***************************************************************************)
(* The setup verification script (npm run setup:verify).                   *)
(* A fix is <<>> for null and <<text>> for a string.                       *)
(***************************************************************************)
\* the bound on the length of the text after NEXT_PUBLIC_CONVEX_URL=
MaxUrlLen == 2

UrlChars == {" ", "#", "h"}

\* process.version is "v<major>.<minor>.<patch>"
NodeVersions == {<<16, 20, 2>>, <<18, 19, 0>>, <<20, 9, 0>>, <<22, 1, 0>>}

VsInit ==
    [ pc |-> "check1", exit |-> -1, checks |-> <<>>, hasErrors |-> FALSE,
      nodeVersion |-> 0, envExists |-> FALSE, convexUrl |-> <<>>, conds |-> <<>> ]

VsIdle == [VsInit EXCEPT !.pc = "off"]

VsFrame ==
    UNCHANGED <<files, shellLog, lastOp, lastDecision, feature_list, progress, commits, session, pf,
                ledger, cli, db, ui, sh>>

\* check without the hasErrors = true of its else branch
check_without_flag(st, name, condition, fix) ==
    IF condition
    THEN [st EXCEPT !.checks = Append(@, [name |-> name, status |-> "PASS", fix |-> <<>>])]
    ELSE [st EXCEPT !.checks = Append(@, [name |-> name, status |-> "FAIL", fix |-> <<fix>>])]

\* function check(name, condition, fix)
check(st, name, condition, fix) ==
    IF condition
    THEN [st EXCEPT !.checks = Append(@, [name |-> name, status |-> "PASS", fix |-> <<>>])]
    ELSE [st EXCEPT !.checks = Append(@, [name |-> name, status |-> "FAIL", fix |-> <<fix>>]),
                    !.hasErrors = TRUE]

\* parseInt(version.slice(1).split(".")[0], 10)
getNodeMajorVersion(version) == version[1]

RECURSIVE TrimLeft(_)
TrimLeft(str) == IF str # <<>> /\ Head(str) = " " THEN TrimLeft(Tail(str)) ELSE str

RECURSIVE TrimRight(_)
TrimRight(str) ==
    IF str # <<>> /\ str[Len(str)] = " " THEN TrimRight(SubSeq(str, 1, Len(str) - 1)) ELSE str

\* String.prototype.trim
Trim(str) == TrimLeft(TrimRight(str))

\* envContent.match(/NEXT_PUBLIC_CONVEX_URL=(.+)/): line is <<>> when the file has no
\* such line, else <<text after the = sign>>; (.+) needs at least one character.
\* The result is <<>> for null, else <<match[1].trim()>>.
ReadConvexUrl(envExists, readable, line) ==
    IF ~envExists \/ ~readable THEN <<>>
    ELSE IF line = <<>> \/ line[1] = <<>> THEN <<>>
    ELSE <<Trim(line[1])>>

\* the truthiness of convexUrl && convexUrl.length > 0 && !convexUrl.startsWith("#")
ConvexUrlIsSet(convexUrl) ==
    /\ convexUrl # <<>>
    /\ convexUrl[1] # <<>>
    /\ Len(convexUrl[1]) > 0
    /\ Head(convexUrl[1]) # "#"

\* one top-level call of check, with the condition it was given kept for the record
VsStep(next, name, condition, fix) ==
    vs' = [check(vs, name, condition, fix) EXCEPT !.pc = next, !.conds = Append(@, condition)]

\* Check 1: Node version
VsCheck1 ==
    /\ vs.pc = "check1"
    /\ \E version \in NodeVersions :
          LET nodeVersion == getNodeMajorVersion(version)
          IN  vs' = [check(vs, "Node.js version >= 20", nodeVersion >= 20,
                           "Current: v<process.version>. Install Node 20+: https://nodejs.org/")
                        EXCEPT !.pc = "check2", !.conds = Append(@, nodeVersion >= 20),
                               !.nodeVersion = nodeVersion]
    /\ VsFrame

\* Check 2: .env.local exists
VsCheck2 ==
    /\ vs.pc = "check2"
    /\ \E envExists \in BOOLEAN :
          vs' = [check(vs, ".env.local file exists", envExists, "Run: cp .env.example .env.local")
                    EXCEPT !.pc = "check3", !.conds = Append(@, envExists),
                           !.envExists = envExists]
    /\ VsFrame

\* Check 3: NEXT_PUBLIC_CONVEX_URL is set
VsCheck3 ==
    /\ vs.pc = "check3"
    /\ \E readable \in BOOLEAN, line \in {<<>>} \cup {<<t>> : t \in SeqsUpTo(UrlChars, MaxUrlLen)} :
          LET convexUrl == ReadConvexUrl(vs.envExists, readable, line)
          IN  vs' = [check(vs, "NEXT_PUBLIC_CONVEX_URL is set", ConvexUrlIsSet(convexUrl),
                           "Run: npx convex dev (this will populate the URL automatically)")
                        EXCEPT !.pc = "check4", !.conds = Append(@, ConvexUrlIsSet(convexUrl)),
                               !.convexUrl = convexUrl]
    /\ VsFrame

\* Check 4: node_modules exists
VsCheck4 ==
    /\ vs.pc = "check4"
    /\ \E nodeModulesExists \in BOOLEAN :
          VsStep("check5", "Dependencies installed", nodeModulesExists, "Run: npm install")
    /\ VsFrame

\* Check 5: Convex folder exists
VsCheck5 ==
    /\ vs.pc = "check5"
    /\ \E convexFolderExists \in BOOLEAN :
          VsStep("output", "Convex folder exists", convexFolderExists,
                 "Ensure you're in the correct project directory")
    /\ VsFrame

\* Output results, then process.exit(hasErrors ? 1 : 0)
VsExit ==
    /\ vs.pc = "output"
    /\ vs' = [vs EXCEPT !.pc = "done", !.exit = IF vs.hasErrors THEN 1 ELSE 0]
    /\ VsFrame

(***************************************************************************)
(* PROGRESS LEDGER.  load, recordPass and validateInvariants over the      *)
(* checklist; a persist writes a temp file record by record and then       *)
(* renames it over the backing store.  A session process may die between   *)
(* any two of these steps.                                                 *)
(***************************************************************************)
\* the longest checklist a caller proposes
MaxRecords == 3

NoLedgerOp == [name |-> "none", index |-> 0, arg |-> <<>>]

LedgerOp(name, index, arg) == [name |-> name, index |-> index, arg |-> arg]

\* pc: "closed" (no session process), "open" (checklist loaded), "writing"
LedgerInit ==
    [ op |-> NoLedgerOp, pc |-> "closed", store |-> <<>>, tmp |-> <<>>,
      mem |-> <<>>, old |-> <<>>, new |-> <<>>, result |-> "none", repeat |-> 0 ]

\* (1) no shorter, (2) description and steps identical below the old length,
\* (3) no record from passing to not passing
validateInvariants(old, new) ==
    IF /\ Len(new) >= Len(old)
       /\ \A i \in 1..Len(old) :
            /\ new[i].description = old[i].description
            /\ new[i].steps = old[i].steps
            /\ old[i].passes => new[i].passes
    THEN "ok" ELSE "violation"

recordPass_toggles(checklist, index) ==
    IF index \notin 1..Len(checklist)
    THEN [status |-> "error", checklist |-> checklist]
    ELSE [status |-> "ok", checklist |-> [checklist EXCEPT ![index].passes = ~@]]

\* out of range: no-op and an error; already passing: no-op and success
recordPass(checklist, index) ==
    IF index \notin 1..Len(checklist)
    THEN [status |-> "error", checklist |-> checklist]
    ELSE IF checklist[index].passes
         THEN [status |-> "ok", checklist |-> checklist]
         ELSE [status |-> "ok", checklist |-> [checklist EXCEPT ![index].passes = TRUE]]

BeginPersist_unchecked(st, new) ==
    [st EXCEPT !.pc = "writing", !.old = st.store, !.new = new, !.tmp = <<>>,
               !.result = "none"]

\* validateInvariants runs before any checklist is persisted; a violation
\* rejects the write and the session goes on with the stored checklist
BeginPersist(st, new) ==
    IF validateInvariants(st.store, new) = "ok"
    THEN [st EXCEPT !.pc = "writing", !.old = st.store, !.new = new, !.tmp = <<>>,
                    !.result = "none"]
    ELSE [st EXCEPT !.result = "violation"]

WriteRecord_in_place(st) ==
    LET k == Len(st.tmp) + 1
    IN  [st EXCEPT !.tmp = Append(@, st.new[k]),
                   !.store = SubSeq(st.new, 1, k) \o SubSeq(st.store, k + 1, Len(st.store))]

\* the next record goes to the temp file
WriteRecord(st) == [st EXCEPT !.tmp = Append(@, st.new[Len(st.tmp) + 1])]

\* the rename puts the complete temp file in place of the backing store
Rename(st) ==
    [st EXCEPT !.store = st.tmp, !.tmp = <<>>, !.mem = st.tmp, !.pc = "open", !.result = "ok"]

\* what a caller may hand to the ledger as the new checklist
Proposals(cl) ==
    { SubSeq(cl, 1, Len(cl) - 1) }
      \cup { [cl EXCEPT ![i].description = 0] : i \in 1..Len(cl) }
      \cup { [cl EXCEPT ![i].steps = <<>>] : i \in 1..Len(cl) }
      \cup { [cl EXCEPT ![i].passes = ~@] : i \in 1..Len(cl) }
      \cup { [cl EXCEPT ![i].passes = TRUE, ![i].description = 0] : i \in 1..Len(cl) }
      \cup (IF Len(cl) < MaxRecords THEN { Append(cl, Feature(Len(cl) + 1)) } ELSE {})

LedgerFrame ==
    UNCHANGED <<files, shellLog, lastOp, lastDecision, feature_list, progress, commits, session,
                pf, vs, cli, db, ui, sh>>

\* INIT of a session: the checklist is read from the backing store
LedgerLoad ==
    /\ ledger.pc = "closed"
    /\ ledger' = [ledger EXCEPT !.pc = "open", !.mem = ledger.store, !.result = "none",
                                !.op = LedgerOp("load", 0, <<>>), !.repeat = 0]
    /\ LedgerFrame

\* the first session creates the checklist from the specification
LedgerBootstrap ==
    /\ ledger.pc = "open"
    /\ ledger.store = <<>>
    /\ LET new == [i \in 1..FEATURE_COUNT |-> Feature(i)]
       IN  ledger' = [BeginPersist(ledger, new) EXCEPT !.op = LedgerOp("bootstrap", 0, new),
                                                       !.repeat = 0]
    /\ LedgerFrame

LedgerRecordPass ==
    /\ ledger.pc = "open"
    /\ \E index \in 0..(Len(ledger.mem) + 1) :
          LET r == recordPass(ledger.mem, index)
              noop == r.status = "ok" /\ r.checklist = ledger.mem
              st == [ledger EXCEPT
                        !.op = LedgerOp("recordPass", index, <<>>),
                        !.repeat = IF ~noop THEN 0
                                   ELSE IF ledger.op = LedgerOp("recordPass", index, <<>>)
                                             /\ ledger.repeat >= 1
                                        THEN 2 ELSE 1]
          IN  ledger' = IF r.status = "error" THEN [st EXCEPT !.result = "error"]
                        ELSE IF noop THEN [st EXCEPT !.result = "ok"]
                        ELSE BeginPersist(st, r.checklist)
    /\ LedgerFrame

\* a caller hands over a whole new checklist
LedgerPropose ==
    /\ ledger.pc = "open"
    /\ ledger.mem # <<>>
    /\ \E new \in Proposals(ledger.mem) :
          ledger' = [BeginPersist(ledger, new) EXCEPT !.op = LedgerOp("propose", 0, new),
                                                      !.repeat = 0]
    /\ LedgerFrame

LedgerWriteRecord ==
    /\ ledger.pc = "writing"
    /\ Len(ledger.tmp) < Len(ledger.new)
    /\ ledger' = WriteRecord(ledger)
    /\ LedgerFrame

LedgerRename ==
    /\ ledger.pc = "writing"
    /\ Len(ledger.tmp) = Len(ledger.new)
    /\ ledger' = Rename(ledger)
    /\ LedgerFrame

\* TERMINATE: the process exits, nothing in memory is carried over
LedgerTerminate ==
    /\ ledger.pc = "open"
    /\ ledger' = [ledger EXCEPT !.pc = "closed", !.mem = <<>>, !.result = "none",
                                !.op = LedgerOp("terminate", 0, <<>>), !.repeat = 0]
    /\ LedgerFrame

\* crash, signal or timeout at any point; a temp file may be left behind
LedgerInterrupt ==
    /\ ledger.pc # "closed"
    /\ ledger' = [ledger EXCEPT !.pc = "closed", !.mem = <<>>, !.result = "none",
                                !.op = LedgerOp("interrupt", 0, <<>>), !.repeat = 0]
    /\ LedgerFrame

(***************************************************************************)
(* ENTRY POINT.  python3 autonomous_agent.py --project-dir . runs sessions *)
(* one after another; --max-iterations limits their number (0: no flag).   *)
(* Every session starts with INIT: Preflight and the load of the ledger.   *)
(***************************************************************************)
\* the largest --max-iterations tried
MaxIterations == 3

\* pc: "off", "start", "init", "session", "loop", "exited"
\* remaining: features not yet passing (-1: no feature_list.json yet)
CliInit ==
    [ ledger |-> "absent", pc |-> "start", exit |-> -1, max |-> 0, iter |-> 0, ran |-> 0,
      remaining |-> -1, preflight |-> TRUE ]

CliIdle == [CliInit EXCEPT !.pc = "off"]

CliFrame ==
    UNCHANGED <<files, shellLog, lastOp, lastDecision, feature_list, progress, commits, session,
                pf, vs, ledger, db, ui, sh>>

Exit(st, code) == [st EXCEPT !.pc = "exited", !.exit = code]

CapReached_off_by_one(st) == st.max # 0 /\ st.ran > st.max

\* the iteration cap of --max-iterations
CapReached(st) == st.max # 0 /\ st.ran >= st.max

\* the command line is read
CliStart ==
    /\ cli.pc = "start"
    /\ \E max \in 0..MaxIterations : cli' = [cli EXCEPT !.pc = "init", !.max = max]
    /\ CliFrame

\* INIT: a failed Preflight or a corrupt ledger halts before any session logic
CliInitSession ==
    /\ cli.pc = "init"
    /\ \E preflight \in BOOLEAN,
          state \in (IF cli.remaining = -1 THEN {"absent"} ELSE {"ok", "corrupt"}) :
          LET st == [cli EXCEPT !.iter = @ + 1, !.preflight = preflight, !.ledger = state]
          IN  cli' = IF ~preflight \/ state = "corrupt"
                     THEN Exit(st, 1)
                     ELSE [st EXCEPT !.pc = "session"]
    /\ CliFrame

\* one session: the first one creates the checklist, each may complete features
CliRunSession ==
    /\ cli.pc = "session"
    /\ LET open == IF cli.remaining = -1 THEN FEATURE_COUNT ELSE cli.remaining
       IN  \E done \in 0..open :
              cli' = [cli EXCEPT !.pc = "loop", !.ran = @ + 1, !.remaining = open - done]
    /\ CliFrame

\* after a session: stop at the cap or when every feature passes
CliLoop ==
    /\ cli.pc = "loop"
    /\ cli' = IF CapReached(cli) \/ cli.remaining = 0
              THEN Exit(cli, 0)
              ELSE IF cli.ran < MaxSessions THEN [cli EXCEPT !.pc = "init"]
              ELSE cli
    /\ CliFrame

(***************************************************************************)
(* IMPLEMENT and TEST.  While a feature is implemented (STEP 5) or tested  *)
(* (STEP 6) every write and every shell command of the agent goes through  *)
(* the Policy Engine.                                                      *)
(***************************************************************************)
\* the files a feature touches or might try to touch
ImplementPaths == {AuthTs, SchemaTs, ProductsTs}

ImplementContents == { {"authTables"}, {"authTables", "tasks", "products"} }

ImplementCommands == { <<"npm">>, <<"rm">>, <<"pkill", "sshd">> }

\* the sessions followed request by request
OrchestratorSessions == 2

ImplementRequest ==
    /\ session.step \in {"implement", "test"}
    /\ \/ \E p \in ImplementPaths, c \in ImplementContents : Request(WriteOp(p, c))
       \/ \E p \in ImplementPaths : Request(DeleteOp(p))

ImplementCommand ==
    /\ session.step \in {"implement", "test"}
    /\ \E cmd \in ImplementCommands :
          LET d == authorizeCommand(cmd)
          IN  /\ lastDecision' = d
              /\ shellLog' = IF d.allow THEN cmd ELSE shellLog
              /\ UNCHANGED <<files, lastOp, feature_list, progress, commits, session, pf, vs,
                             ledger, cli, db, ui, sh>>

(***************************************************************************)
(* convex/tasks.ts: the tasks table with its queries and mutations.  A     *)
(* string is its text and its length; an optional field or argument is a   *)
(* sequence, empty when undefined.  Document ids are handed out in order   *)
(* of creation; Date.now() is a clock that moves on with every reading.    *)
(***************************************************************************)
\* documents ever inserted into the table
MaxTasks == 2

\* readings of Date.now()
MaxClock == 4

\* args.title.length > 500
TITLE_MAX == 500

\* args.description.length > 5000
DESCRIPTION_MAX == 5000

Users == {"u1", "u2"}

\* getAuthUserId(ctx) of a request without a signed-in user
NoUser == "null"

Callers == Users \cup {NoUser}

Str(text, length) == [text |-> text, length |-> length]

\* ctx.db.get of an id without a document
Null == [null |-> TRUE]

TaskIds == 1..MaxTasks

NoCall == [fn |-> "none", userId |-> NoUser, taskId |-> 0, error |-> "", provided |-> {}]

DbInit == [tasks |-> [i \in TaskIds |-> Null], nextId |-> 1, now |-> 1, last |-> NoCall]

NotAuthenticated == "Not authenticated"

TaskNotFound == "Task not found"

TitleTooLong == "Title must be 500 characters or less"

DescriptionTooLong == "Description must be 5000 characters or less"

\* a handler's outcome: the table after it, the clock, the id it is about, the error thrown
Ok(tasks, nextId, now, taskId) ==
    [taskId |-> taskId, error |-> "", tasks |-> tasks, nextId |-> nextId, now |-> now]

Throw(st, taskId, message) ==
    [taskId |-> taskId, error |-> message, tasks |-> st.tasks, nextId |-> st.nextId,
     now |-> st.now]

get(tasks, taskId) == IF taskId \in DOMAIN tasks THEN tasks[taskId] ELSE Null

RECURSIVE Descending(_)
\* .order("desc"): newest document first
Descending(ids) ==
    IF ids = {} THEN <<>>
    ELSE LET newest == CHOOSE i \in ids : \A j \in ids : j <= i
         IN  <<newest>> \o Descending(ids \ {newest})

\* a query without the index range: every document of the table
by_anyone(tasks, userId) == {i \in DOMAIN tasks : tasks[i] # Null}

\* the index range by_userId = userId
by_userId(tasks, userId) == {i \in DOMAIN tasks : tasks[i] # Null /\ tasks[i].userId = userId}

\* query list: the caller's tasks, newest first
list(tasks, userId) ==
    IF userId = NoUser THEN <<>>
    ELSE LET order == Descending(by_userId(tasks, userId))
         IN  [k \in 1..Len(order) |-> tasks[order[k]]]

\* query getById: <<>> is null
getById(tasks, userId, taskId) ==
    IF userId = NoUser THEN <<>>
    ELSE LET task == get(tasks, taskId)
         IN  IF task = Null \/ task.userId # userId THEN <<>> ELSE <<task>>

\* create that stores the priority argument as it came, without a default
create_same_owner(st, userId, args) ==
    IF userId = NoUser THEN Throw(st, 0, NotAuthenticated)
    ELSE IF args.title.length > TITLE_MAX THEN Throw(st, 0, TitleTooLong)
    ELSE IF args.description # <<>> /\ args.description[1].length # 0
            /\ args.description[1].length > DESCRIPTION_MAX
         THEN Throw(st, 0, DescriptionTooLong)
    ELSE LET doc == [description |-> args.description, userId |-> "u1",
                     title |-> args.title, _id |-> st.nextId,
                     completed |-> FALSE,
                     priority |-> IF args.priority = <<>> THEN "medium" ELSE args.priority[1],
                     createdAt |-> st.now, updatedAt |-> <<>>]
         IN  Ok([st.tasks EXCEPT ![st.nextId] = doc], st.nextId + 1, st.now + 1, st.nextId)

\* create that checks no length
create_unvalidated(st, userId, args) ==
    IF userId = NoUser THEN Throw(st, 0, NotAuthenticated)
    ELSE LET doc == [description |-> args.description, userId |-> userId,
                     title |-> args.title, _id |-> st.nextId,
                     completed |-> FALSE,
                     priority |-> IF args.priority = <<>> THEN "medium" ELSE args.priority[1],
                     createdAt |-> st.now, updatedAt |-> <<>>]
         IN  Ok([st.tasks EXCEPT ![st.nextId] = doc], st.nextId + 1, st.now + 1, st.nextId)

\* mutation create.  args.description && ...: an empty description is falsy
create(st, userId, args) ==
    IF userId = NoUser THEN Throw(st, 0, NotAuthenticated)
    ELSE IF args.title.length > TITLE_MAX THEN Throw(st, 0, TitleTooLong)
    ELSE IF args.description # <<>> /\ args.description[1].length # 0
            /\ args.description[1].length > DESCRIPTION_MAX
         THEN Throw(st, 0, DescriptionTooLong)
    ELSE LET doc == [description |-> args.description, userId |-> userId,
                     title |-> args.title, _id |-> st.nextId,
                     completed |-> FALSE,
                     priority |-> IF args.priority = <<>> THEN "medium" ELSE args.priority[1],
                     createdAt |-> st.now, updatedAt |-> <<>>]
         IN  Ok([st.tasks EXCEPT ![st.nextId] = doc], st.nextId + 1, st.now + 1, st.nextId)

\* the arguments of update that are not undefined
Provided(args) == {f \in {"title", "description", "completed", "priority"} : args[f] # <<>>}

\* cleanUpdates: the document with every provided field replaced
cleanUpdates(task, args) ==
    LET t1 == IF args.title # <<>> THEN [task EXCEPT !.title = args.title[1]] ELSE task
        t2 == IF args.description # <<>> THEN [t1 EXCEPT !.description = args.description]
              ELSE t1
        t3 == IF args.completed # <<>> THEN [t2 EXCEPT !.completed = args.completed[1]] ELSE t2
    IN  IF args.priority # <<>> THEN [t3 EXCEPT !.priority = args.priority[1]] ELSE t3

\* update that patches updatedAt whether or not a field was provided
update_always_patches(st, userId, args) ==
    IF userId = NoUser THEN Throw(st, args.taskId, NotAuthenticated)
    ELSE LET task == get(st.tasks, args.taskId)
         IN  IF task = Null \/ task.userId # userId THEN Throw(st, args.taskId, TaskNotFound)
             ELSE IF args.title # <<>> /\ args.title[1].length > TITLE_MAX
                  THEN Throw(st, args.taskId, TitleTooLong)
             ELSE IF args.description # <<>> /\ args.description[1].length > DESCRIPTION_MAX
                  THEN Throw(st, args.taskId, DescriptionTooLong)
             ELSE Ok([st.tasks EXCEPT ![args.taskId] =
                          [cleanUpdates(task, args) EXCEPT !.updatedAt = <<st.now>>]],
                     st.nextId, st.now + 1, args.taskId)

\* update without the ownership test
update_any_owner(st, userId, args) ==
    IF userId = NoUser THEN Throw(st, args.taskId, NotAuthenticated)
    ELSE LET task == get(st.tasks, args.taskId)
         IN  IF task = Null THEN Throw(st, args.taskId, TaskNotFound)
             ELSE IF Provided(args) # {}
                  THEN Ok([st.tasks EXCEPT ![args.taskId] =
                               [cleanUpdates(task, args) EXCEPT !.updatedAt = <<st.now>>]],
                          st.nextId, st.now + 1, args.taskId)
             ELSE Ok(st.tasks, st.nextId, st.now, args.taskId)

\* mutation update
update(st, userId, args) ==
    IF userId = NoUser THEN Throw(st, args.taskId, NotAuthenticated)
    ELSE LET task == get(st.tasks, args.taskId)
         IN  IF task = Null \/ task.userId # userId THEN Throw(st, args.taskId, TaskNotFound)
             ELSE IF args.title # <<>> /\ args.title[1].length > TITLE_MAX
                  THEN Throw(st, args.taskId, TitleTooLong)
             ELSE IF args.description # <<>> /\ args.description[1].length > DESCRIPTION_MAX
                  THEN Throw(st, args.taskId, DescriptionTooLong)
             ELSE IF Provided(args) # {}
                  THEN Ok([st.tasks EXCEPT ![args.taskId] =
                               [cleanUpdates(task, args) EXCEPT !.updatedAt = <<st.now>>]],
                          st.nextId, st.now + 1, args.taskId)
             ELSE Ok(st.tasks, st.nextId, st.now, args.taskId)

\* mutation remove
remove(st, userId, taskId) ==
    IF userId = NoUser THEN Throw(st, taskId, NotAuthenticated)
    ELSE LET task == get(st.tasks, taskId)
         IN  IF task = Null \/ task.userId # userId THEN Throw(st, taskId, TaskNotFound)
             ELSE Ok([st.tasks EXCEPT ![taskId] = Null], st.nextId, st.now, taskId)

\* toggleComplete that marks the task completed whatever it was
toggleComplete_sets_true(st, userId, taskId) ==
    IF userId = NoUser THEN Throw(st, taskId, NotAuthenticated)
    ELSE LET task == get(st.tasks, taskId)
         IN  IF task = Null \/ task.userId # userId THEN Throw(st, taskId, TaskNotFound)
             ELSE Ok([st.tasks EXCEPT ![taskId] =
                          [task EXCEPT !.completed = TRUE, !.updatedAt = <<st.now>>]],
                     st.nextId, st.now + 1, taskId)

\* mutation toggleComplete
toggleComplete(st, userId, taskId) ==
    IF userId = NoUser THEN Throw(st, taskId, NotAuthenticated)
    ELSE LET task == get(st.tasks, taskId)
         IN  IF task = Null \/ task.userId # userId THEN Throw(st, taskId, TaskNotFound)
             ELSE Ok([st.tasks EXCEPT ![taskId] =
                          [task EXCEPT !.completed = ~task.completed, !.updatedAt = <<st.now>>]],
                     st.nextId, st.now + 1, taskId)

\* the arguments the clients send
Titles == {Str("t", 1), Str("long", TITLE_MAX), Str("over", TITLE_MAX + 1)}

Descriptions ==
    {<<>>, <<Str("", 0)>>, <<Str("d", DESCRIPTION_MAX)>>, <<Str("over", DESCRIPTION_MAX + 1)>>}

Priorities == {"low", "medium", "high"}

CreateArgs ==
    { [description |-> <<>>, title |-> Str("t", 1), priority |-> <<"high">>],
      [description |-> <<Str("d", DESCRIPTION_MAX)>>, title |-> Str("long", TITLE_MAX),
       priority |-> <<>>],
      [description |-> <<>>, title |-> Str("over", TITLE_MAX + 1), priority |-> <<>>],
      [description |-> <<Str("over", DESCRIPTION_MAX + 1)>>, title |-> Str("t", 1),
       priority |-> <<>>] }

UpdateFields ==
    { [description |-> <<>>, title |-> <<>>, completed |-> <<>>, priority |-> <<>>],
      [description |-> <<>>, title |-> <<Str("long", TITLE_MAX)>>, completed |-> <<TRUE>>,
       priority |-> <<>>],
      [description |-> <<Str("", 0)>>, title |-> <<>>, completed |-> <<>>,
       priority |-> <<"low">>],
      [description |-> <<>>, title |-> <<Str("over", TITLE_MAX + 1)>>, completed |-> <<>>,
       priority |-> <<>>],
      [description |-> <<Str("over", DESCRIPTION_MAX + 1)>>, title |-> <<>>,
       completed |-> <<FALSE>>, priority |-> <<>>] }

UpdateArgs ==
    { [description |-> f.description, taskId |-> i, title |-> f.title,
       completed |-> f.completed, priority |-> f.priority] : i \in TaskIds, f \in UpdateFields }

DbFrame ==
    UNCHANGED <<files, shellLog, lastOp, lastDecision, feature_list, progress, commits, session,
                pf, vs, ledger, cli, ui, sh>>

\* the deployment after a call: the handler's outcome and the record of the call
Called(fn, userId, provided, out) ==
    [tasks |-> out.tasks, nextId |-> out.nextId, now |-> out.now,
     last |-> [fn |-> fn, userId |-> userId, taskId |-> out.taskId, error |-> out.error,
               provided |-> provided]]

List ==
    /\ \E userId \in Callers :
          db' = Called("list", userId, {}, Ok(db.tasks, db.nextId, db.now, 0))
    /\ DbFrame

GetById ==
    /\ \E userId \in Callers, taskId \in TaskIds :
          db' = Called("getById", userId, {}, Ok(db.tasks, db.nextId, db.now, taskId))
    /\ DbFrame

Create ==
    /\ db.nextId <= MaxTasks
    /\ db.now < MaxClock
    /\ \E userId \in Callers, args \in CreateArgs :
          db' = Called("create", userId, {}, create(db, userId, args))
    /\ DbFrame

Update ==
    /\ db.now < MaxClock
    /\ \E userId \in Callers, args \in UpdateArgs :
          db' = Called("update", userId, Provided(args), update(db, userId, args))
    /\ DbFrame

Remove ==
    /\ \E userId \in Callers, taskId \in TaskIds :
          db' = Called("remove", userId, {}, remove(db, userId, taskId))
    /\ DbFrame

ToggleComplete ==
    /\ db.now < MaxClock
    /\ \E userId \in Callers, taskId \in TaskIds :
          db' = Called("toggleComplete", userId, {}, toggleComplete(db, userId, taskId))
    /\ DbFrame

(***************************************************************************)
(* components/auth: SignOutButton and SignInForm.  Each component keeps    *)
(* isLoading; a handler runs up to its await, the promise settles, and the *)
(* rest of the handler (catch, finally) runs as the continuation.          *)
(***************************************************************************)
Components == {"SignOutButton", "SignInForm"}

\* what the awaited promise settles to: a value, a thrown Error, a thrown non-Error
Resolved == [ok |-> TRUE, message |-> "", isError |-> FALSE]

Outcomes ==
    { Resolved,
      [ok |-> FALSE, message |-> "Invalid credentials", isError |-> TRUE],
      [ok |-> FALSE, message |-> "", isError |-> FALSE] }

\* the text of the catch block's fallback, by handler
Fallback(handler) ==
    CASE handler = "handleSignOut" -> "Sign out failed"
      [] handler = "handleOAuthSignIn" -> "Sign in failed"
      [] OTHER -> "Authentication failed"

Mounted ==
    [pc |-> "idle", handler |-> "", isLoading |-> FALSE, outcome |-> Resolved, toast |-> "",
     mode |-> "signIn"]

UiInit == [c \in Components |-> Mounted]

UiFrame ==
    UNCHANGED <<files, shellLog, lastOp, lastDecision, feature_list, progress, commits, session,
                pf, vs, ledger, cli, db, sh>>

\* setIsLoading(true), then the handler waits for signOut() or signIn(...)
Started(st, handler) == [st EXCEPT !.isLoading = TRUE, !.pc = "awaiting", !.handler = handler]

\* the promise settles; the continuation is scheduled
Settled(st, outcome) == [st EXCEPT !.pc = "settled", !.outcome = outcome]

\* a handler that clears isLoading after the await, inside the try
Continuation_without_finally(st) ==
    IF st.outcome.ok
    THEN [st EXCEPT !.pc = "idle", !.isLoading = FALSE]
    ELSE [st EXCEPT !.pc = "idle",
                    !.toast = IF st.outcome.isError THEN st.outcome.message
                              ELSE Fallback(st.handler)]

\* catch { toast.error(...) } finally { setIsLoading(false) }
Continuation(st) ==
    IF st.outcome.ok
    THEN [st EXCEPT !.pc = "idle", !.isLoading = FALSE]
    ELSE [st EXCEPT !.pc = "idle", !.isLoading = FALSE,
                    !.toast = IF st.outcome.isError THEN st.outcome.message
                              ELSE Fallback(st.handler)]

\* the button is disabled while isLoading
handleSignOut ==
    /\ ~ui["SignOutButton"].isLoading
    /\ ui' = [ui EXCEPT !["SignOutButton"] = Started(@, "handleSignOut")]
    /\ UiFrame

handleOAuthSignIn ==
    /\ ~ui["SignInForm"].isLoading
    /\ ui' = [ui EXCEPT !["SignInForm"] = Started(@, "handleOAuthSignIn")]
    /\ UiFrame

handlePasswordSubmit ==
    /\ ~ui["SignInForm"].isLoading
    /\ ui' = [ui EXCEPT !["SignInForm"] = Started(@, "handlePasswordSubmit")]
    /\ UiFrame

\* the link that switches between signing in and signing up
setMode ==
    /\ ~ui["SignInForm"].isLoading
    /\ ui' = [ui EXCEPT !["SignInForm"].mode = IF @ = "signIn" THEN "signUp" ELSE "signIn"]
    /\ UiFrame

\* signOut() settles
SignOutSettles ==
    /\ ui["SignOutButton"].pc = "awaiting"
    /\ \E outcome \in Outcomes : ui' = [ui EXCEPT !["SignOutButton"] = Settled(@, outcome)]
    /\ UiFrame

SignOutContinues ==
    /\ ui["SignOutButton"].pc = "settled"
    /\ ui' = [ui EXCEPT !["SignOutButton"] = Continuation(@)]
    /\ UiFrame

\* signIn(...) settles
SignInSettles ==
    /\ ui["SignInForm"].pc = "awaiting"
    /\ \E outcome \in Outcomes : ui' = [ui EXCEPT !["SignInForm"] = Settled(@, outcome)]
    /\ UiFrame

SignInContinues ==
    /\ ui["SignInForm"].pc = "settled"
    /\ ui' = [ui EXCEPT !["SignInForm"] = Continuation(@)]
    /\ UiFrame

(***************************************************************************)
(* init.sh.  The script runs under set -e, as preflight.sh does.           *)
(***************************************************************************)
ShInit ==
    [ pc |-> "node", exit |-> -1, python |-> <<>>, aborted |-> "", out |-> {}, node |-> 0,
      ran |-> {} ]

ShIdle == [ShInit EXCEPT !.pc = "off"]

ShFrame ==
    UNCHANGED <<files, shellLog, lastOp, lastDecision, feature_list, progress, commits, session,
                pf, vs, ledger, cli, db, ui>>

\* exit N
ShExit(st, code) == [st EXCEPT !.pc = "done", !.exit = code]

\* set -e: the script ends at once with the failed command's status
ShAbort(st, at, code) == [st EXCEPT !.pc = "done", !.exit = code, !.aborted = at]

Echo(st, line) == [st EXCEPT !.out = @ \cup {line}]

\* STEP 1: Node.js 20+ (node = 0: not installed)
Step1(st, node) ==
    LET st1 == [st EXCEPT !.node = node, !.ran = @ \cup {"node"}, !.pc = "python"]
    IN  IF node = 0 THEN ShExit(Echo(st1, "ERROR: Node.js not found."), 1)
        ELSE IF node < 20 THEN ShExit(Echo(st1, "WARNING: Node.js detected."), 1)
        ELSE Echo(st1, "Node.js detected")

\* STEP 2: Python, for the autonomous agent
Step2(st, py, bc) ==
    LET run == PythonVersionCommand(py)
        st1 == [st EXCEPT !.python = py, !.ran = @ \cup {"python"}, !.pc = "npm"]
    IN  IF run.status # 0 THEN ShAbort(st1, "python", run.status)
        ELSE IF run.out = <<>> THEN Echo(st1, "WARNING: Python 3 not found.")
        ELSE IF IsOutdated(run.out, bc) THEN Echo(st1, "WARNING: Python detected.")
        ELSE Echo(st1, "Python detected")

\* STEP 3: npm install
Step3(st, ok) ==
    LET st1 == [st EXCEPT !.ran = @ \cup {"npm"}, !.pc = "convex"]
    IN  IF ok THEN st1 ELSE ShAbort(st1, "npm", 1)

\* STEP 4: npx convex whoami; convex dev --once --configure=new when .env.local
\* names no deployment; convex codegen || true
Step4(st, loggedIn, configured, devOk) ==
    LET st1 == [st EXCEPT !.ran = @ \cup {"convex"}, !.pc = "git"]
    IN  IF ~loggedIn THEN Echo(st1, "CONVEX SETUP REQUIRED")
        ELSE IF configured THEN Echo(st1, "SETUP COMPLETE!")
        ELSE IF devOk THEN Echo(Echo(st1, "Convex backend created!"), "SETUP COMPLETE!")
        ELSE ShExit(Echo(st1, "Convex initialization requires interactive setup."), 1)

Remotes == {"none", "template", "own"}

\* STEP 5: git remote get-url origin ends with 2 when there is no origin
Step5(st, remote) ==
    LET st1 == [st EXCEPT !.ran = @ \cup {"git"}, !.pc = "done"]
    IN  IF remote = "none" THEN ShAbort(st1, "git", 2)
        ELSE IF remote = "template"
             THEN ShExit(Echo(Echo(st1, "GIT REMOTE SETUP"), "Run preflight"), 0)
        ELSE ShExit(Echo(st1, "Run preflight"), 0)

ShStep1 ==
    /\ sh.pc = "node"
    /\ \E node \in NodeEnv : sh' = Step1(sh, node)
    /\ ShFrame

ShStep2 ==
    /\ sh.pc = "python"
    /\ \E py \in PythonEnv, bc \in BOOLEAN : sh' = Step2(sh, py, bc)
    /\ ShFrame

ShStep3 ==
    /\ sh.pc = "npm"
    /\ \E ok \in BOOLEAN : sh' = Step3(sh, ok)
    /\ ShFrame

ShStep4 ==
    /\ sh.pc = "convex"
    /\ \E loggedIn \in BOOLEAN, configured \in BOOLEAN, devOk \in BOOLEAN :
          sh' = Step4(sh, loggedIn, configured, devOk)
    /\ ShFrame

ShStep5 ==
    /\ sh.pc = "git"
    /\ \E remote \in Remotes : sh' = Step5(sh, remote)
    /\ ShFrame

(***************************************************************************)
(* SPECIFICATIONS                                                          *)
(***************************************************************************)
InitCommon ==
    /\ files = InitFiles
    /\ shellLog = <<>>
    /\ lastOp = NoOp
    /\ lastDecision = NoDecision
    /\ feature_list = <<>>
    /\ progress = 0
    /\ commits = <<>>
    /\ ledger = LedgerInit
    /\ session = Idle
    /\ db = DbInit
    /\ ui = UiInit

\* the agent's filesystem requests
InitWrites == InitCommon /\ pf = PfIdle /\ vs = VsIdle /\ cli = CliIdle /\ sh = ShIdle

NextWrites == RequestWrite \/ RequestDelete

SpecWrites == InitWrites /\ [][NextWrites]_vars

\* the agent's shell requests
NextShell == RequestCommand

SpecShell == InitWrites /\ [][NextShell]_vars

\* the sessions of the harness
NextSession ==
    \/ StartSession
    \/ CreateFeatureList
    \/ InitialCommit
    \/ GetBearings
    \/ VerificationTest
    \/ FixIssue
    \/ ChooseFeature
    \/ ImplementFeature
    \/ VerifyWithBrowser
    \/ UpdateFeatureList
    \/ CommitProgress
    \/ UpdateProgressNotes
    \/ EndSession
    \/ Interrupt

SpecSession == InitWrites /\ [][NextSession]_vars

\* one run of preflight.sh
InitPreflight == InitCommon /\ pf = PfInit /\ vs = VsIdle /\ cli = CliIdle /\ sh = ShIdle

NextPreflight ==
    \/ PfCheck1
    \/ PfCheck2
    \/ PfCheck3
    \/ PfCheck4
    \/ PfCheck5
    \/ PfCheck6
    \/ PfCheck7
    \/ PfCheck8
    \/ PfSummary

SpecPreflight == InitPreflight /\ [][NextPreflight]_vars

\* one run of the setup verification script
InitVerify == InitCommon /\ pf = PfIdle /\ vs = VsInit /\ cli = CliIdle /\ sh = ShIdle

NextVerify == VsCheck1 \/ VsCheck2 \/ VsCheck3 \/ VsCheck4 \/ VsCheck5 \/ VsExit

SpecVerify == InitVerify /\ [][NextVerify]_vars

\* the Progress Ledger over the sessions of the harness
NextLedger ==
    \/ LedgerLoad
    \/ LedgerBootstrap
    \/ LedgerRecordPass
    \/ LedgerPropose
    \/ LedgerWriteRecord
    \/ LedgerRename
    \/ LedgerTerminate
    \/ LedgerInterrupt

SpecLedger == InitWrites /\ [][NextLedger]_vars

\* the agent's requests while a feature is being implemented or tested
NextOrchestrator ==
    \/ (session.n < OrchestratorSessions /\ StartSession)
    \/ CreateFeatureList
    \/ InitialCommit
    \/ GetBearings
    \/ VerificationTest
    \/ FixIssue
    \/ ChooseFeature
    \/ ImplementFeature
    \/ VerifyWithBrowser
    \/ UpdateFeatureList
    \/ CommitProgress
    \/ UpdateProgressNotes
    \/ EndSession
    \/ Interrupt
    \/ ImplementRequest
    \/ ImplementCommand

SpecOrchestrator == InitWrites /\ [][NextOrchestrator]_vars

\* one run of the entry point
InitCli == InitCommon /\ pf = PfIdle /\ vs = VsIdle /\ cli = CliInit /\ sh = ShIdle

NextCli == CliStart \/ CliInitSession \/ CliRunSession \/ CliLoop

SpecCli == InitCli /\ [][NextCli]_vars

\* the Convex functions of the task list
NextTasks == List \/ GetById \/ Create \/ Update \/ Remove \/ ToggleComplete

SpecTasks == InitWrites /\ [][NextTasks]_vars

\* the auth components; the event loop runs a continuation that is ready
NextAuth ==
    \/ handleSignOut \/ handleOAuthSignIn \/ handlePasswordSubmit \/ setMode
    \/ SignOutSettles \/ SignOutContinues \/ SignInSettles \/ SignInContinues

SpecAuth ==
    InitWrites /\ [][NextAuth]_vars /\ WF_vars(SignOutContinues) /\ WF_vars(SignInContinues)

\* init.sh
InitSetup == InitCommon /\ pf = PfIdle /\ vs = VsIdle /\ cli = CliIdle /\ sh = ShInit

NextSetup == ShStep1 \/ ShStep2 \/ ShStep3 \/ ShStep4 \/ ShStep5

SpecSetup == InitSetup /\ [][NextSetup]_vars

\* every component
Init == InitCommon /\ pf = PfInit /\ vs = VsInit /\ cli = CliInit /\ sh = ShInit

Next ==
    \/ NextWrites \/ NextShell \/ NextSession \/ NextPreflight \/ NextVerify
    \/ NextLedger \/ ImplementRequest \/ ImplementCommand \/ NextCli
    \/ NextTasks \/ NextAuth \/ NextSetup

Spec == Init /\ [][Next]_vars

(***************************************************************************)
(* CLAIMS                                                                  *)
(***************************************************************************)
ClaimProtectedPaths == {AuthTs, AuthConfigTs, GeneratedApi, GeneratedNew, ProviderTsx, RootLayout}

ClaimBlockedPrograms ==
    {"rm", "rmdir", "sudo", "su", "wget", "ssh", "scp", "dd", "mkfs", "mv", "frobnicate"}

\* C3: a command whose program is in neither the allow list nor the restrict list
\* (rm, rmdir, sudo, su, wget, ssh, scp, dd, mkfs, or a program named nowhere) is
\* denied and is not executed.
C3_DenyByDefault ==
    /\ shellLog # <<>> => shellLog[1] \notin ClaimBlockedPrograms
    /\ lastDecision.rule # "none" =>
          /\ lastDecision.subject[1] \in ClaimBlockedPrograms => ~lastDecision.allow
          /\ Program(lastDecision.subject) \notin
                (ALLOWED_COMMANDS \cup COMMANDS_NEEDING_EXTRA_VALIDATION) => ~lastDecision.allow

\* C3 witness: git status ran, then rm -R app was denied and did not run
C3_Witness ==
    /\ shellLog = <<"git", "status">>
    /\ lastDecision = Deny("block", <<"rm", "-R", "app">>)

ClaimDevProcesses ==
    {"node", "npm", "npx", "vite", "next", "python", "python3", "uvicorn", "gunicorn"}

\* C4: a pkill command is permitted exactly when every process name it targets is one
\* of node, npm, npx, vite, next, python, python3, uvicorn, gunicorn.
C4_PkillTargets ==
    /\ (shellLog # <<>> /\ shellLog[1] = "pkill") =>
          PkillTargets(shellLog) \subseteq ClaimDevProcesses
    /\ (lastDecision.rule # "none" /\ lastDecision.subject[1] = "pkill") =>
          (lastDecision.allow <=> PkillTargets(lastDecision.subject) \subseteq ClaimDevProcesses)

\* C4 witness: pkill node vite ran, then pkill node sshd was denied
C4_Witness ==
    /\ shellLog = <<"pkill", "node", "vite">>
    /\ lastDecision = Deny("pkill", <<"pkill", "node", "sshd">>)

ClaimExtendOnlyPaths == {SchemaTs, HttpTs}

ClaimAddExecuteModes == {"+x", "u+x", "a+x"}

\* C6: a chmod command is permitted only when its mode adds the execute bit and
\* nothing else; a mode that adds write permission, removes or sets bits, or is
\* numeric is denied.
C6_ChmodAddExecuteOnly ==
    /\ (shellLog # <<>> /\ shellLog[1] = "chmod") => shellLog[2] \in ClaimAddExecuteModes
    /\ (lastDecision.rule # "none" /\ lastDecision.subject[1] = "chmod" /\ lastDecision.allow) =>
          lastDecision.subject[2] \in ClaimAddExecuteModes

\* C6 witness: chmod +x init.sh ran, then chmod 777 init.sh was denied
C6_Witness ==
    /\ shellLog = <<"chmod", "+x", "init.sh">>
    /\ lastDecision = Deny("chmod", <<"chmod", "777", "init.sh">>)

\* does the command run a script called init.sh
RunsInitScript(cmd) ==
    \/ BaseName(cmd[1]) = "init.sh"
    \/ /\ cmd[1] \in {"bash", "sh", "zsh", "source"}
       /\ \E i \in 2..Len(cmd) : BaseName(cmd[i]) = "init.sh"

ClaimInitForms == { <<"./init.sh">>, <<"bash", "init.sh">>, <<"sh", "init.sh">> }

\* C7: a command that runs init.sh is permitted exactly when it is ./init.sh,
\* bash init.sh or sh init.sh with no further word.
C7_InitScriptForms ==
    /\ (shellLog # <<>> /\ RunsInitScript(shellLog)) => shellLog \in ClaimInitForms
    /\ (lastDecision.rule # "none" /\ RunsInitScript(lastDecision.subject)) =>
          (lastDecision.allow <=> lastDecision.subject \in ClaimInitForms)

\* C7 witness: bash init.sh ran, then ./init.sh --force was denied
C7_Witness ==
    /\ shellLog = <<"bash", "init.sh">>
    /\ lastDecision = Deny("init.sh", <<"./init.sh", "--force">>)

\* C2: one step of a session never shortens the checklist, never changes the
\* description or the steps of a record, and never takes a record from passing
\* to not passing.
C2_ChecklistMonotone ==
    [][ /\ Len(feature_list') >= Len(feature_list)
        /\ \A i \in 1..Len(feature_list) :
              /\ feature_list[i].passes => feature_list'[i].passes
              /\ feature_list'[i].description = feature_list[i].description
              /\ feature_list'[i].steps = feature_list[i].steps ]_vars

\* C8: preflight.sh ends with exit code 1 when the outcome of some check counts as
\* an error, and with exit code 0 otherwise (warnings allowed).
C8_PreflightExitCode ==
    pf.pc = "done" => pf.exit = (IF pf.unmet = {} THEN 0 ELSE 1)

\* C9: check 1 of preflight.sh fails (it counts an error, or python3 itself ends the
\* script) exactly when the installed Python is below 3.10.
C9_PythonMinimum ==
    (pf.pc \notin {"off", "check1"} /\ pf.python # <<>>) =>
        (("python" \in pf.counted \/ pf.aborted = "check1") <=> PythonTooOld(pf.python))

\* C10: the verification script records one entry per check, FAIL with a non-empty
\* fix exactly when the condition is false and PASS with no fix otherwise, and it
\* exits 1 if and only if some entry is FAIL, 0 otherwise.
C10_VerifyReport ==
    /\ Len(vs.checks) = Len(vs.conds)
    /\ \A i \in 1..Len(vs.checks) :
          IF vs.conds[i]
          THEN vs.checks[i].status = "PASS" /\ vs.checks[i].fix = <<>>
          ELSE /\ vs.checks[i].status = "FAIL"
               /\ vs.checks[i].fix # <<>>
               /\ vs.checks[i].fix[1] # ""
    /\ vs.pc = "done" =>
          /\ Len(vs.checks) = 5
          /\ vs.exit = (IF \E i \in 1..Len(vs.checks) : vs.checks[i].status = "FAIL" THEN 1 ELSE 0)

\* C10 witness: a finished run on Node 20 whose .env.local gives no usable URL
C10_Witness ==
    /\ vs.pc = "done"
    /\ vs.exit = 1
    /\ vs.checks[1].status = "PASS"
    /\ vs.checks[3].status = "FAIL"
    /\ vs.convexUrl = << <<"#", "h">> >>

\* C11: recordPass on a record that already passes leaves the checklist as it
\* is and reports success, also when it is called again; and recordPass(i)
\* after recordPass(i) gives the checklist of a single recordPass(i).
C11_RecordPassIdempotent ==
    [][ /\ \A i \in 1..Len(ledger.mem) :
              LET once == recordPass(ledger.mem, i)
                  twice == recordPass(once.checklist, i)
              IN  twice.checklist = once.checklist /\ twice.status = "ok"
        /\ LET i == ledger'.op.index
           IN  ( /\ ledger.pc = "open"
                 /\ ledger'.op.name = "recordPass"
                 /\ i \in 1..Len(ledger.mem)
                 /\ ledger.mem[i].passes )
               => /\ ledger'.store = ledger.store
                  /\ ledger'.mem = ledger.mem
                  /\ ledger'.result = "ok"
                  /\ ledger'.pc = "open" ]_vars

C11_Witness ==
    /\ ledger.pc = "open"
    /\ ledger.op.name = "recordPass"
    /\ ledger.repeat = 2
    /\ ledger.result = "ok"
    /\ ledger.store[ledger.op.index].passes
    /\ \E j \in 1..Len(ledger.store) : ~ledger.store[j].passes

ClaimViolates(old, new) ==
    \/ Len(new) < Len(old)
    \/ \E i \in 1..Len(old) : i <= Len(new) /\ new[i].description # old[i].description
    \/ \E i \in 1..Len(old) : i <= Len(new) /\ new[i].steps # old[i].steps
    \/ \E i \in 1..Len(old) : i <= Len(new) /\ old[i].passes /\ ~new[i].passes

C13_AtomicPersist ==
    /\ ledger.store \in {ledger.old, ledger.new}
    /\ ledger.pc = "writing" => ledger.store = ledger.old
    /\ (ledger.pc = "open" /\ ledger.op.name = "load") => ledger.mem = ledger.store

C13_Witness ==
    /\ ledger.pc = "open"
    /\ ledger.op.name = "load"
    /\ ledger.tmp # <<>>
    /\ Len(ledger.tmp) < Len(ledger.new)
    /\ ledger.mem = ledger.old
    /\ ledger.old # ledger.new
    /\ ledger.old # <<>>

\* C14: a regression found by the verification test of a passing entry leaves
\* the entry's passes field true, and no feature is chosen while an issue is
\* still on the list.
C14_RegressionMarker ==
    [][ /\ \A i \in 1..Len(feature_list) :
              ( /\ session.step = "verify"
                /\ i \in session'.issues \ session.issues
                /\ feature_list[i].passes )
              => feature_list'[i].passes
        /\ (session.step = "verify" /\ session'.step \in {"implement", "notes"})
              => session.issues = {} ]_vars

\* C15: the feature a session works on is the first entry of the checklist
\* that does not pass: it has passes = false and every entry before it passes.
C15_SelectUnit ==
    session.step \in {"implement", "test", "update"} =>
        /\ session.selected \in 1..Len(feature_list)
        /\ ~feature_list[session.selected].passes
        /\ \A j \in 1..(session.selected - 1) : feature_list[j].passes

C15_Witness ==
    /\ session.step = "implement"
    /\ session.selected = 2
    /\ feature_list[1].passes
    /\ ~feature_list[2].passes

\* C16: an entry goes from passes = false to passes = true only in STEP 7 of a
\* session whose browser verification of that very entry has succeeded.
C16_PassNeedsEvidence ==
    [][ \A i \in 1..Len(feature_list) :
            (i <= Len(feature_list') /\ ~feature_list[i].passes /\ feature_list'[i].passes)
            => /\ session.step = "update"
               /\ session.verified
               /\ session.selected = i ]_vars

C16_Witness ==
    /\ session.step = "commit"
    /\ session.verified
    /\ feature_list[session.selected].passes
    /\ \E j \in 1..Len(feature_list) : ~feature_list[j].passes

\* C17: a write or a shell command that the Policy Engine denies while a
\* feature is implemented or tested changes neither the working tree nor the
\* executed commands, the checklist, the notes, the commits or the position
\* of the session.
C17_DenialChangesNothing ==
    [][ ( /\ session.step \in {"implement", "test"}
          /\ lastOp' # lastOp \/ lastDecision' # lastDecision
          /\ ~lastDecision'.allow )
        => /\ files' = files
           /\ shellLog' = shellLog
           /\ session' = session
           /\ feature_list' = feature_list
           /\ progress' = progress
           /\ commits' = commits
           /\ ledger' = ledger ]_vars

C17_Witness ==
    /\ session.step = "test"
    /\ lastOp = DeleteOp(SchemaTs)
    /\ lastDecision = Deny("extend-only", SchemaTs)
    /\ files[SchemaTs] = File({"authTables", "tasks", "products"})
    /\ files[ProductsTs].exists

HeadCommit == IF commits = <<>> THEN [list |-> <<>>, notes |-> 0] ELSE commits[Len(commits)]

\* C18: when the next session starts, every earlier checkpoint counts as done,
\* so the last commit holds a progress note for each unit of verified progress
\* it records.
C18_CheckpointOneUnit ==
    session.step = "bearings" => Cardinality(Passing(HeadCommit.list)) <= HeadCommit.notes

\* C19: with a session cap N the entry point runs at most N sessions; it exits
\* 0 at the cap or when every feature passes, and non-zero when Preflight fails
\* or the ledger is corrupt at INIT, and then that session has not run.
C19_CliExitCode ==
    /\ cli.max # 0 => cli.ran <= cli.max
    /\ cli.pc = "exited" =>
          /\ cli.exit = 0 <=> (cli.preflight /\ cli.ledger # "corrupt")
          /\ cli.exit # 0 => cli.ran = cli.iter - 1
          /\ cli.exit = 0 => /\ cli.ran = cli.iter
                             /\ (cli.max # 0 /\ cli.ran = cli.max) \/ cli.remaining = 0

C19_Witness ==
    /\ cli.pc = "exited"
    /\ cli.exit = 0
    /\ cli.max = 2
    /\ cli.ran = 2
    /\ cli.remaining > 0

ClaimProtectedSamples == {RootLayout, AuthTs, AuthConfigTs}

ClaimFreeSamples == {NestedLayout, ProductsTs}

UnmatchedPath == P(<<>>, "package", "json")

ClaimClasses == [p \in Paths \cup {UnmatchedPath} |-> classify(p)]

\* no longest matching pattern of a path has a more restrictive class than the path
ClaimLongestWins ==
    \A p \in Paths :
        \A e \in PolicyEntries :
            ( /\ Matches(e.pattern, p)
              /\ \A f \in PolicyEntries :
                    Matches(f.pattern, p) => PatLen(f.pattern) <= PatLen(e.pattern) )
            => /\ Rank(ClaimClasses[p]) >= Rank(e.class)
               /\ \E g \in PolicyEntries :
                     /\ Matches(g.pattern, p)
                     /\ PatLen(g.pattern) = PatLen(e.pattern)
                     /\ g.class = ClaimClasses[p]

ClaimStage(step) ==
    CASE step \in {"bearings", "create_list", "init_commit"} -> 1
      [] step = "verify" -> 2
      [] step = "choose" -> 3
      [] step = "implement" -> 4
      [] step = "test" -> 5
      [] step = "update" -> 6
      [] step \in {"commit", "notes"} -> 7
      [] step = "end" -> 8
      [] OTHER -> 0

\* the first state a step from one prompt step to another enters: choosing the
\* feature is SELECT_UNIT, and the same step goes on to IMPLEMENT
ClaimEntered(from, to) == IF from = "verify" /\ to = "implement" THEN 3 ELSE ClaimStage(to)

\* no state is entered before its predecessor was
ClaimInOrder(from, to) == ClaimEntered(from, to) <= ClaimStage(from) + 1

\* a session starts at INIT with nothing but the files: no unit selected, no evidence,
\* nothing checked
ClaimFreshStart ==
    (session.step = "none" /\ session'.step # "none") =>
        /\ ClaimStage(session'.step) = 1
        /\ session' = [Idle EXCEPT !.n = session'.n, !.step = session'.step]
        /\ session'.step = (IF feature_list = <<>> THEN "create_list" ELSE "bearings")

\* C22 as stated: in every session no orchestrator state is entered before its
\* predecessor, and every session starts at INIT from the files alone.
C22_EverySessionInOrder ==
    [][ /\ (session.step # "none" /\ session'.step \notin {"none", session.step}) =>
              ClaimInOrder(session.step, session'.step)
        /\ ClaimFreshStart ]_vars

\* C22 amended: the same for every step but those that leave the initializer's
\* bootstrap, which go on to SELECT_UNIT or to CHECKPOINT without VERIFY_PRIOR_WORK.
C22_CodingSessionInOrder ==
    [][ /\ (session.step \notin {"none", "init_commit"}
            /\ session'.step \notin {"none", session.step}) =>
              ClaimInOrder(session.step, session'.step)
        /\ ClaimFreshStart ]_vars

\* C22 witness: a coding session that verified prior work, selected a unit, tested
\* it, recorded the pass and wrote its notes
C22_Witness ==
    /\ session.n >= 2
    /\ session.step = "end"
    /\ session.checked # {}
    /\ session.selected # 0
    /\ session.verified
    /\ feature_list[session.selected].passes

\* the call that a step of the deployment made
ClaimMutations == {"update", "remove", "toggleComplete"}

\* C23: update, remove and toggleComplete throw "Not authenticated" for a caller
\* who is not signed in and "Task not found" when the task does not exist or is
\* another user's; a call that throws changes and deletes no document.
C23_FailuresChangeNothing ==
    [][ (db' # db /\ db'.last.fn \in ClaimMutations) =>
          LET call == db'.last
              task == get(db.tasks, call.taskId)
          IN  /\ call.userId = NoUser =>
                    call.error = NotAuthenticated
              /\ (call.userId # NoUser /\ (task = Null \/ task.userId # call.userId)) =>
                    call.error = TaskNotFound
              /\ call.error # "" => db'.tasks = db.tasks ]_vars

\* C23 witness: an update of another user's task was refused
C23_Witness ==
    /\ db.last.fn = "update"
    /\ db.last.error = TaskNotFound
    /\ db.last.userId = "u2"
    /\ db.tasks[db.last.taskId] # Null
    /\ db.tasks[db.last.taskId].userId = "u1"
    /\ db.tasks[db.last.taskId].updatedAt = <<>>

\* the documents of the table that belong to a user
ClaimOwned(tasks, userId) ==
    {tasks[i] : i \in {j \in DOMAIN tasks : tasks[j] # Null /\ tasks[j].userId = userId}}

\* list and getById as the claim states them, in one state of the table
ClaimViews(tasks) ==
    /\ list(tasks, NoUser) = <<>>
    /\ \A u \in Users :
          /\ Range(list(tasks, u)) = ClaimOwned(tasks, u)
          /\ Len(list(tasks, u)) = Cardinality(ClaimOwned(tasks, u))
          /\ \A i \in TaskIds :
                (tasks[i] # Null /\ tasks[i].userId # u) => getById(tasks, u, i) = <<>>

\* C24: list gives a signed-in caller exactly the documents whose userId is the
\* caller's and gives a caller who is not signed in the empty list; getById gives
\* null for another user's task; a call by one user that changes the table changes
\* no other user's list or getById.
C24_UserIsolation ==
    /\ []ClaimViews(db.tasks)
    /\ [][ \A u \in Users :
             (u # db'.last.userId /\ db'.tasks # db.tasks) =>
                 /\ list(db'.tasks, u) = list(db.tasks, u)
                 /\ \A i \in TaskIds : getById(db'.tasks, u, i) = getById(db.tasks, u, i) ]_vars

\* C24 witness: both users own a task and the last call was a change by u1
C24_Witness ==
    /\ db.last.fn \in ClaimMutations
    /\ db.last.userId = "u1"
    /\ db.last.error = ""
    /\ ClaimOwned(db.tasks, "u1") # {}
    /\ ClaimOwned(db.tasks, "u2") # {}

\* the arguments update is tried with in every state
ClaimUpdateArgs ==
    [ description : {<<>>, <<Str("", 0)>>},
      taskId : TaskIds,
      title : {<<>>, <<Str("long", TITLE_MAX)>>},
      completed : {<<>>, <<TRUE>>, <<FALSE>>},
      priority : {<<>>, <<"low">>} ]

\* C25: an update by the owner that is not refused leaves the whole table as it was
\* when it provides no field; otherwise it sets each provided field to the value
\* given and updatedAt to the time of the call, and changes no other field and no
\* other document.
C25_UpdateFrame ==
    \A u \in Users, args \in ClaimUpdateArgs :
        LET task == get(db.tasks, args.taskId)
            out == update(db, u, args)
            new == out.tasks[args.taskId]
        IN  (task # Null /\ task.userId = u /\ out.error = "") =>
                IF Provided(args) = {} THEN out.tasks = db.tasks
                ELSE /\ \A i \in TaskIds \ {args.taskId} : out.tasks[i] = db.tasks[i]
                     /\ new.title = (IF args.title # <<>> THEN args.title[1] ELSE task.title)
                     /\ new.description =
                            (IF args.description # <<>> THEN args.description
                             ELSE task.description)
                     /\ new.completed =
                            (IF args.completed # <<>> THEN args.completed[1] ELSE task.completed)
                     /\ new.priority =
                            (IF args.priority # <<>> THEN args.priority[1] ELSE task.priority)
                     /\ new.updatedAt = <<db.now>>
                     /\ new.userId = task.userId
                     /\ new.createdAt = task.createdAt
                     /\ new._id = task._id

\* C25 witness: the owner's update without fields went through on a task that was
\* never patched
C25_Witness ==
    /\ db.last.fn = "update"
    /\ db.last.error = ""
    /\ db.last.provided = {}
    /\ db.tasks[db.last.taskId].updatedAt = <<>>
    /\ db.now > db.tasks[db.last.taskId].createdAt + 1

\* C26: toggleComplete by the owner negates completed, sets updatedAt and changes
\* nothing else; a second toggleComplete gives completed its first value back.
C26_ToggleInvolution ==
    \A u \in Users, i \in TaskIds :
        LET task == get(db.tasks, i)
            once == toggleComplete(db, u, i)
            twice == toggleComplete(once, u, i)
        IN  (task # Null /\ task.userId = u) =>
                /\ once.error = "" /\ twice.error = ""
                /\ once.tasks[i] = [task EXCEPT !.completed = ~task.completed,
                                                !.updatedAt = once.tasks[i].updatedAt]
                /\ once.tasks[i].updatedAt # <<>>
                /\ \A j \in TaskIds \ {i} : once.tasks[j] = db.tasks[j]
                /\ twice.tasks[i].completed = task.completed

\* C26 witness: a task created and then toggled twice is not completed again
C26_Witness ==
    /\ db.last.fn = "toggleComplete"
    /\ db.last.error = ""
    /\ db.tasks[db.last.taskId].completed = FALSE
    /\ db.tasks[db.last.taskId].updatedAt = <<db.tasks[db.last.taskId].createdAt + 2>>

\* the arguments create is tried with in every state
ClaimCreateArgs ==
    [ description : Descriptions, title : Titles, priority : {<<>>} \cup {<<p>> : p \in Priorities} ]

\* C27: create by a signed-in caller with a title of at most 500 and a description
\* of at most 5000 characters inserts exactly one document, with the caller as
\* userId, completed false and priority medium when none is given; a create by a
\* caller who is not signed in, or over a limit, throws and inserts nothing.
C27_CreateInsertsOne ==
    db.nextId <= MaxTasks =>
        \A u \in Callers, args \in ClaimCreateArgs :
            LET out == create(db, u, args)
                added == {i \in TaskIds : out.tasks[i] # db.tasks[i]}
            IN  IF /\ u # NoUser
                   /\ args.title.length <= 500
                   /\ (args.description = <<>> \/ args.description[1].length <= 5000)
                THEN /\ out.error = ""
                     /\ Cardinality(added) = 1
                     /\ \A i \in added :
                           /\ db.tasks[i] = Null
                           /\ out.tasks[i].userId = u
                           /\ out.tasks[i].completed = FALSE
                           /\ out.tasks[i].title = args.title
                           /\ out.tasks[i].description = args.description
                           /\ out.tasks[i].priority =
                                  (IF args.priority = <<>> THEN "medium" ELSE args.priority[1])
                ELSE /\ out.error # ""
                     /\ out.tasks = db.tasks

\* C27 witness: a create without a priority stored a medium task of the caller
C27_Witness ==
    /\ db.last.fn = "create"
    /\ db.last.error = ""
    /\ db.tasks[db.last.taskId] # Null
    /\ db.tasks[db.last.taskId].priority = "medium"
    /\ db.tasks[db.last.taskId].userId = db.last.userId
    /\ db.tasks[db.last.taskId].title.length = TITLE_MAX

\* C28: a document appears only by a create of a signed-in caller and carries that
\* caller as userId; while it exists no call changes its userId or its createdAt.
C28_OwnerAndCreationFixed ==
    [][ \A i \in TaskIds :
          /\ (db.tasks[i] = Null /\ db'.tasks[i] # Null) =>
                /\ db'.last.fn = "create"
                /\ db'.last.userId \in Users
                /\ db'.tasks[i].userId = db'.last.userId
          /\ (db.tasks[i] # Null /\ db'.tasks[i] # Null) =>
                /\ db'.tasks[i].userId = db.tasks[i].userId
                /\ db'.tasks[i].createdAt = db.tasks[i].createdAt ]_vars

\* C28 witness: a task of u2 was updated and then toggled by u2 and another was removed
C28_Witness ==
    /\ db.last.fn = "remove"
    /\ db.last.error = ""
    /\ \E i \in TaskIds :
          /\ db.tasks[i] # Null
          /\ db.tasks[i].userId = "u2"
          /\ db.tasks[i].updatedAt # <<>>

\* C29: a handler sets isLoading when its request starts; when the rest of the
\* handler has run, isLoading is false, and after a rejection the toast shows the
\* error's message or the handler's fallback text; isLoading is true only while a
\* handler is under way, and a settled request always leads to isLoading false.
C29_LoadingEnds ==
    /\ [][ \A c \in Components :
             /\ (ui[c].pc = "idle" /\ ui'[c].pc = "awaiting") => ui'[c].isLoading
             /\ (ui[c].pc = "settled" /\ ui'[c].pc = "idle") =>
                   /\ ~ui'[c].isLoading
                   /\ ~ui[c].outcome.ok =>
                         ui'[c].toast = (IF ui[c].outcome.isError THEN ui[c].outcome.message
                                         ELSE Fallback(ui[c].handler))
             /\ ui'[c].isLoading => ui'[c].pc # "idle" ]_vars
    /\ \A c \in Components : (ui[c].pc = "settled") ~> (~ui[c].isLoading)

\* C29 witness: a password sign-in was rejected with a non-Error; the form is
\* usable again and shows the fallback text
C29_Witness ==
    /\ ui["SignInForm"].handler = "handlePasswordSubmit"
    /\ ui["SignInForm"].pc = "idle"
    /\ ~ui["SignInForm"].outcome.ok
    /\ ~ui["SignInForm"].isLoading
    /\ ui["SignInForm"].toast = "Authentication failed"

\* C30: when the Python step of init.sh has run with Python missing or below
\* 3.10, the script has printed a Python warning and has not ended there; and the
\* script ends with exit code 1 before npm install only when Node.js is missing or
\* below 20.
C30_PythonOnlyWarns ==
    /\ ("python" \in sh.ran /\ PythonTooOld(sh.python)) =>
          /\ sh.out \cap {"WARNING: Python 3 not found.", "WARNING: Python detected."} # {}
          /\ sh.aborted # "python"
    /\ (sh.pc = "done" /\ sh.exit = 1 /\ "npm" \notin sh.ran) => sh.node < 20

====
